---- MODULE Spec2Model ----
(***************************************************************************)
(* A model of hilan-attendance: the pay-period date mapping, the time and  *)
(* status parsers, the fill plan of the flow controller, the batch fill    *)
(* choreography of the calendar page, the browser session, and the reading *)
(* of a month's attendance (calendar scan, detail rows, per-day fallback). *)
(*                                                                         *)
(* Pure functions of the source are operators.  Each is exercised by a     *)
(* specification of its own whose Init draws the inputs from bounded sets  *)
(* and whose actions apply the function; the variables of the other parts  *)
(* stay at their idle values.                                              *)
(***************************************************************************)
EXTENDS Integers, Sequences, FiniteSets, TLC

VARIABLES
    pc,          \* position of the running operation
    for_date,    \* get_pay_period: the date argument
    start_day,   \* Config.pay_period_start_day
    period,      \* get_pay_period: the (year, month) returned
    cell_in,     \* get_cell_date: the (day, target_month, target_year) arguments
    cell,        \* get_cell_date: the (year, month, day) returned
    time_str,    \* parse_time_string: the text argument, a sequence of characters
    parsed,      \* parse_time_string: the time returned, <<hour, minute>>, or NoTime
    raised,      \* whether the operation ended by raising an exception
    status_text, \* StatusNotes.detect_in: the text argument, a sequence of letters
    status_note, \* StatusNotes.detect_in: the member returned, or NoNote
    entry_point, \* the operation the caller invoked
    records,     \* attendance.records: the AttendanceRecords of the fetched month
    pattern,     \* config.pattern: the AttendancePattern
    today_only,  \* run_attendance_flow: today_only
    up_to_today, \* run_attendance_flow: up_to_today
    today_date,  \* run_attendance_flow: date.today()
    to_fill,     \* run_attendance_flow: the records it selects for filling
    confirmed,   \* run_attendance_flow: whether Confirm.ask was asked and accepted
    batch_called, \* fill_attendance: whether it called fill_batch_attendance
    dry_run,     \* dry_run of the running operation
    records_to_fill, \* fill_attendance / fill_batch: the items of the batch
    result,      \* (successful, failed) returned by fill_batch, <<>> before
    caught,      \* the exception fill_batch caught, or None
    portal_log,  \* the actions performed on the portal, in order
    notice_seen, \* how often the 'no days selected' notice was found visible
    ok_visible,  \* whether the notice's OK control was found visible
    clear_visible, \* whether the clear control was found visible, last time
    rows_seen,   \* the detail rows on the page when the fill script is sent
    rows_matched, \* those of them that an instruction of the batch would write
    filled,      \* fill_batch: filled_count, the rows the script reported written
    browser_used, \* fill_batch: whether it performed any operation on the page
    detail_rows, \* get_attendance: the visible detail rows, in document order
    detail_i,    \* detail script: how many of the rows the loop has merged
    by_date_key, \* detail script: byDateKey, its values in insertion order
    playwright,  \* BrowserSession._playwright is set
    browser,     \* BrowserSession._browser is set
    context,     \* BrowserSession._context is set
    page,        \* BrowserSession._page is set
    is_logged_in, \* BrowserSession._is_logged_in
    stopped,     \* BrowserSession.stop was entered
    session_log, \* what the run did with the portal, in order
    ending,      \* the way the flow run ended, or None
    scan_arg,    \* _parse_calendar: the (year, month) arguments
    cells,       \* _parse_calendar: the td[days] cells of the page, in order
    cell_i,      \* _parse_calendar: how many of the cells the loop has parsed
    coarse,      \* get_attendance: the records as _parse_calendar returned them
    selected_count, \* get_attendance: selected_info.count
    detail_list, \* get_attendance: detail_rows, the list of _DetailRow
    fallback_data, \* get_attendance: the rows of the per-day fallback
    read_log     \* what get_attendance did on the page, in order

dateVars == <<for_date, start_day, period, cell_in, cell>>
parseVars == <<time_str, parsed, raised>>
statusVars == <<status_text, status_note>>
planVars == <<entry_point, records, pattern, today_only, up_to_today, today_date, to_fill, confirmed, batch_called>>
batchVars == <<dry_run, records_to_fill, result, caught, portal_log, notice_seen, ok_visible, clear_visible, rows_seen, rows_matched, filled, browser_used>>
detailVars == <<detail_rows, detail_i, by_date_key>>
sessionVars == <<playwright, browser, context, page, is_logged_in, stopped, session_log, ending>>
readVars == <<scan_arg, cells, cell_i, coarse, selected_count, detail_list, fallback_data, read_log>>
vars == <<pc, dateVars, parseVars, statusVars, planVars, batchVars, detailVars, sessionVars, readVars>>

\* what the actions of one part leave alone
notDates == <<parseVars, statusVars, planVars, batchVars, detailVars, sessionVars, readVars>>
notParse == <<dateVars, statusVars, planVars, batchVars, detailVars, sessionVars, readVars>>
notStatus == <<dateVars, parseVars, planVars, batchVars, detailVars, sessionVars, readVars>>
notFill == <<dateVars, parseVars, statusVars, detailVars, sessionVars, readVars>>
notDetail == <<dateVars, parseVars, statusVars, planVars, batchVars, sessionVars, readVars>>

\* Python's None, and None where a datetime.time is expected
None == "None"
NoTime == <<>>

(***************************************************************************)
(* Bounds of the model.                                                    *)
(***************************************************************************)
FirstYear == 2024
NumYears == 2
Years == FirstYear .. (FirstYear + NumYears)

\* Config.pay_period_start_day: Field(default=20, ge=1, le=28)
MinStartDay == 1
MaxStartDay == 28
StartDays == MinStartDay .. MaxStartDay

(***************************************************************************)
(* Calendar dates (datetime.date).                                         *)
(***************************************************************************)
IsLeap(y) == (y % 4 = 0 /\ y % 100 # 0) \/ y % 400 = 0

\* calendar.monthrange(year, month)[1]
DaysInMonth(y, m) ==
    IF m = 2 THEN (IF IsLeap(y) THEN 29 ELSE 28)
    ELSE IF m \in {4, 6, 9, 11} THEN 30 ELSE 31

ValidDates ==
    {d \in [year : Years, month : 1..12, day : 1..31] :
        d.day <= DaysInMonth(d.year, d.month)}

(***************************************************************************)
(* models.get_pay_period                                                   *)
(***************************************************************************)
get_pay_period_NoRollover(d, s) ==
    IF d.day >= s THEN <<d.year, d.month + 1>> ELSE <<d.year, d.month>>

get_pay_period(d, s) ==
    IF d.day >= s
    THEN IF d.month = 12 THEN <<d.year + 1, 1>> ELSE <<d.year, d.month + 1>>
    ELSE <<d.year, d.month>>

(***************************************************************************)
(* calendar.get_cell_date                                                  *)
(***************************************************************************)
get_cell_date_NoRollback(day, target_month, target_year, s) ==
    IF day >= s THEN <<target_year, target_month - 1, day>>
    ELSE <<target_year, target_month, day>>

get_cell_date_Strict(day, target_month, target_year, s) ==
    IF day > s
    THEN IF target_month = 1 THEN <<target_year - 1, 12, day>>
         ELSE <<target_year, target_month - 1, day>>
    ELSE <<target_year, target_month, day>>

get_cell_date(day, target_month, target_year, s) ==
    IF day >= s
    THEN IF target_month = 1 THEN <<target_year - 1, 12, day>>
         ELSE <<target_year, target_month - 1, day>>
    ELSE <<target_year, target_month, day>>

(***************************************************************************)
(* calendar.parse_time_string.  A text is a sequence of characters.        *)
(***************************************************************************)
MaxTimeLen == 5

Digits == {"0", "1", "2", "3", "4", "5", "6", "7", "8", "9"}
\* the characters texts are drawn from: some digits, the colon, the dash of
\* the portal's "--:--" placeholder and the space
TimeChars == {"0", "1", "2", "5", "6", ":", "-", " "}
\* str.isspace(); "nbsp" is the non-breaking space
Whitespace == {" ", "nbsp"}

TimeTexts == UNION {[1..n -> TimeChars] : n \in 0..MaxTimeLen}

\* int() of one decimal digit
DigitValue(c) ==
    CASE c = "0" -> 0 [] c = "1" -> 1 [] c = "2" -> 2 [] c = "3" -> 3
      [] c = "4" -> 4 [] c = "5" -> 5 [] c = "6" -> 6 [] c = "7" -> 7
      [] c = "8" -> 8 [] c = "9" -> 9

\* str() of one decimal digit, and the two-digit form of f'{n:02d}' and %H, %M
DigitChar(d) ==
    CASE d = 0 -> "0" [] d = 1 -> "1" [] d = 2 -> "2" [] d = 3 -> "3"
      [] d = 4 -> "4" [] d = 5 -> "5" [] d = 6 -> "6" [] d = 7 -> "7"
      [] d = 8 -> "8" [] d = 9 -> "9"

TwoDigits(n) == <<DigitChar(n \div 10), DigitChar(n % 10)>>

\* int() of a sequence of decimal digits
RECURSIVE IntOf(_)
IntOf(ds) ==
    IF ds = <<>> THEN 0
    ELSE 10 * IntOf(SubSeq(ds, 1, Len(ds) - 1)) + DigitValue(ds[Len(ds)])

\* str.strip(): leading and trailing whitespace removed
RECURSIVE LStrip(_)
LStrip(t) ==
    IF t # <<>> /\ t[1] \in Whitespace THEN LStrip(Tail(t)) ELSE t

RECURSIVE RStrip(_)
RStrip(t) ==
    IF t # <<>> /\ t[Len(t)] \in Whitespace
    THEN RStrip(SubSeq(t, 1, Len(t) - 1)) ELSE t

Strip(t) == RStrip(LStrip(t))

\* re.match(r'^(\d{1,2}):(\d{2})$', t): the two groups, or <<>> for no match
TimeMatch(t) ==
    LET n == Len(t)
        allDigits(q) == \A i \in 1..Len(q) : q[i] \in Digits
    IN  IF /\ n \in {4, 5}
           /\ t[n - 2] = ":"
           /\ allDigits(SubSeq(t, 1, n - 3))
           /\ allDigits(SubSeq(t, n - 1, n))
        THEN <<SubSeq(t, 1, n - 3), SubSeq(t, n - 1, n)>>
        ELSE <<>>

\* datetime.time(hour, minute): raises ValueError outside 0..23, 0..59
time(hour, minute) ==
    IF hour \in 0..23 /\ minute \in 0..59
    THEN [raised |-> FALSE, value |-> <<hour, minute>>]
    ELSE [raised |-> TRUE, value |-> NoTime]

parse_time_string_NoStrip(t) ==
    IF t = <<>> THEN [raised |-> FALSE, value |-> NoTime]
    ELSE LET m == TimeMatch(t)
         IN  IF m # <<>>
             THEN LET r == time(IntOf(m[1]), IntOf(m[2]))
                  IN  IF r.raised THEN [raised |-> FALSE, value |-> NoTime] ELSE r
             ELSE [raised |-> FALSE, value |-> NoTime]

parse_time_string_NoExcept(t) ==
    IF t = <<>> THEN [raised |-> FALSE, value |-> NoTime]
    ELSE LET m == TimeMatch(Strip(t))
         IN  IF m # <<>>
             THEN time(IntOf(m[1]), IntOf(m[2]))
             ELSE [raised |-> FALSE, value |-> NoTime]

parse_time_string(t) ==
    IF t = <<>> THEN [raised |-> FALSE, value |-> NoTime]
    ELSE LET m == TimeMatch(Strip(t))
         IN  IF m # <<>>
             THEN LET r == time(IntOf(m[1]), IntOf(m[2]))
                  IN  IF r.raised THEN [raised |-> FALSE, value |-> NoTime] ELSE r
             ELSE [raised |-> FALSE, value |-> NoTime]

(***************************************************************************)
(* vocabulary.StatusNotes and vocabulary.DayTypes.  A member is its name   *)
(* and its value; a value is a sequence of Hebrew letters, each written    *)
(* by its name.                                                            *)
(***************************************************************************)
SICK ==
    [name |-> <<"S", "I", "C", "K">>,
     value |-> <<"mem", "het", "lamed", "he">>]
VACATION ==
    [name |-> <<"V", "A", "C", "A", "T", "I", "O", "N">>,
     value |-> <<"het", "vav", "pe", "shin", "he">>]
VACATION_ALT ==
    [name |-> <<"V", "A", "C", "A", "T", "I", "O", "N", "_", "A", "L", "T">>,
     value |-> <<"het", "vav", "pe", "shin">>]
HOLIDAY ==
    [name |-> <<"H", "O", "L", "I", "D", "A", "Y">>,
     value |-> <<"het", "gimel">>]

\* StatusNotes._members(): the members in definition order
StatusNotes == <<SICK, VACATION, VACATION_ALT, HOLIDAY>>

\* None where a StatusNotes member is expected
NoNote == [name |-> <<>>, value |-> <<>>]

\* the values of DayTypes, in definition order
DayTypes ==
    << <<"mem", "het", "lamed", "he">>,                       \* SICK
       <<"het", "vav", "pe", "shin", "he">>,                  \* VACATION
       <<"het", "tsadi", "yod", " ",
         "het", "vav", "pe", "shin", "he">>,                  \* HALF_VACATION
       <<"het", "gimel">>,                                    \* HOLIDAY
       <<"mem", "yod", "lamed", "vav", "alef", "yod",
         "final_mem">>,                                       \* RESERVE
       <<"he", "shin", "tav", "lamed", "mem", "vav", "tav">>, \* TRAINING
       <<"alef", "bet", "lamed">> >>                          \* BEREAVEMENT

\* Python's `sub in text` for strings
Contains(text, sub) ==
    \E i \in 0..(Len(text) - Len(sub)) : SubSeq(text, i + 1, i + Len(sub)) = sub

\* str.endswith
EndsWith(text, suffix) ==
    /\ Len(suffix) <= Len(text)
    /\ SubSeq(text, Len(text) - Len(suffix) + 1, Len(text)) = suffix

\* StatusNotes[name]
StatusNotesByName(name) ==
    StatusNotes[CHOOSE i \in 1..Len(StatusNotes) : StatusNotes[i].name = name]

\* StatusNotes.canonical
canonical_Self(note) == note

canonical(note) ==
    IF EndsWith(note.name, <<"_", "A", "L", "T">>)
    THEN StatusNotesByName(SubSeq(note.name, 1, Len(note.name) - 4))
    ELSE note

\* StatusNotes.detect_in
detect_in(text) ==
    LET hits == {i \in 1..Len(StatusNotes) : Contains(text, StatusNotes[i].value)}
    IN  IF hits = {} THEN NoNote
        ELSE canonical(StatusNotes[CHOOSE i \in hits : \A j \in hits : i <= j])

(***************************************************************************)
(* datetime.date: ordering and weekday (Monday = 0 ... Sunday = 6).        *)
(***************************************************************************)
Date(y, m, d) == [year |-> y, month |-> m, day |-> d]

RECURSIVE DaysBeforeMonth(_, _)
DaysBeforeMonth(y, m) ==
    IF m = 1 THEN 0 ELSE DaysBeforeMonth(y, m - 1) + DaysInMonth(y, m - 1)

\* date.toordinal(): days since 0001-01-01, which is day 1
ToOrdinal(d) ==
    LET y == d.year - 1
    IN  y * 365 + (y \div 4) - (y \div 100) + (y \div 400)
          + DaysBeforeMonth(d.year, d.month) + d.day

\* date.weekday()
Weekday(d) == (ToOrdinal(d) + 6) % 7

\* d1 <= d2 on dates
DateLE(d1, d2) == ToOrdinal(d1) <= ToOrdinal(d2)

(***************************************************************************)
(* models.WorkType, models.AttendancePattern, models.AttendanceRecord      *)
(***************************************************************************)
OFFICE == "office"
HOME == "home"
ABROAD == "abroad"
SKIP == "skip"

\* WorkType.hilan_code: the vendor code, or None
hilan_code(work_type) ==
    CASE work_type = OFFICE -> "103"
      [] work_type = HOME -> "101"
      [] work_type = ABROAD -> "104"
      [] OTHER -> None

\* weekday numbers of vocabulary.Weekdays (MONDAY = 0 ... SUNDAY = 6)
MONDAY == 0
TUESDAY == 1
WEDNESDAY == 2
THURSDAY == 3
FRIDAY == 4
SATURDAY == 5
SUNDAY == 6

\* AttendancePattern(): the defaults
DefaultPattern ==
    [entry_time |-> <<9, 0>>,
     exit_time |-> <<18, 0>>,
     days |-> (SUNDAY :> OFFICE) @@ (MONDAY :> OFFICE) @@ (TUESDAY :> OFFICE)
                @@ (WEDNESDAY :> OFFICE) @@ (THURSDAY :> OFFICE)]

\* a configured pattern: Friday from home, Sunday skipped
FridayPattern ==
    [entry_time |-> <<8, 0>>,
     exit_time |-> <<16, 30>>,
     days |-> (FRIDAY :> HOME) @@ (SUNDAY :> SKIP) @@ (MONDAY :> ABROAD)]

\* AttendancePattern.work_days
work_days(p) == {n \in DOMAIN p.days : p.days[n] # SKIP}

\* AttendancePattern.get_work_type
get_work_type(p, weekday) ==
    IF weekday \in 0..6 /\ weekday \in DOMAIN p.days /\ p.days[weekday] # SKIP
    THEN p.days[weekday]
    ELSE None

\* AttendanceRecord properties
has_existing_entry(r) == r.entry_time # NoTime
has_existing_exit(r) == r.exit_time # NoTime
is_complete(r) == has_existing_entry(r) /\ has_existing_exit(r)
\* bool(record.note): a note that is neither None nor the empty string
HasNote(r) == r.note # NoNote /\ r.note.value # <<>>

SeqRange(q) == {q[i] : i \in 1..Len(q)}

(***************************************************************************)
(* attendance.run_attendance_flow: the records selected for filling        *)
(* (lines 148-161).                                                        *)
(***************************************************************************)
\* a variant that selects without looking at the note
ToFill_IgnoreNote(rs, p, upto, only, today) ==
    LET Keep(r) ==
            /\ Weekday(r.date) \in work_days(p)
            /\ ~is_complete(r)
            /\ upto => DateLE(r.date, today)
            /\ only => r.date = today
    IN  SelectSeq(rs, Keep)

ToFill(rs, p, upto, only, today) ==
    LET Keep(r) ==
            /\ Weekday(r.date) \in work_days(p)
            /\ ~is_complete(r)
            /\ ~HasNote(r)
            /\ upto => DateLE(r.date, today)
            /\ only => r.date = today
    IN  SelectSeq(rs, Keep)

(***************************************************************************)
(* attendance.fill_attendance: the items it builds (lines 36-62).  Each    *)
(* item is a plain tuple (date, entry, exit, work type), not a             *)
(* FillInstruction; class records which of the two an item is.             *)
(***************************************************************************)
\* a variant that takes both times from the pattern
BatchItem_PatternTimes(r, p) ==
    [class |-> "tuple",
     date |-> r.date,
     entry_time |-> p.entry_time,
     exit_time |-> p.exit_time,
     type |-> IF get_work_type(p, Weekday(r.date)) # None
              THEN get_work_type(p, Weekday(r.date)) ELSE OFFICE]

\* lines 56-61: the item appended for a record
BatchItem(r, p) ==
    [class |-> "tuple",
     date |-> r.date,
     entry_time |-> IF has_existing_entry(r) THEN r.entry_time ELSE p.entry_time,
     exit_time |-> IF has_existing_exit(r) THEN r.exit_time ELSE p.exit_time,
     type |-> IF get_work_type(p, Weekday(r.date)) # None
              THEN get_work_type(p, Weekday(r.date)) ELSE OFFICE]

RECURSIVE MapItems(_, _)
MapItems(rs, p) ==
    IF rs = <<>> THEN <<>> ELSE <<BatchItem(Head(rs), p)>> \o MapItems(Tail(rs), p)

\* only_dates is a list of dates; an empty list (or None) filters nothing
BuildRecordsToFill(rs, p, only_dates) ==
    LET Keep(r) ==
            /\ ~(only_dates # <<>> /\ r.date \notin SeqRange(only_dates))
            /\ Weekday(r.date) \in work_days(p)
            /\ ~is_complete(r)
            /\ ~HasNote(r)
    IN  MapItems(SelectSeq(rs, Keep), p)

RECURSIVE DatesOf(_)
DatesOf(rs) == IF rs = <<>> THEN <<>> ELSE <<Head(rs).date>> \o DatesOf(Tail(rs))

(***************************************************************************)
(* CalendarPage.fill_batch: the helpers of its steps.                      *)
(***************************************************************************)
\* len(records_to_fill)
N == Len(records_to_fill)

\* the distinct day-of-month values of the instructions (line 786)
day_numbers(items) == {items[i].date.day : i \in 1..Len(items)}

\* f'{day:02d}/{month:02d}' (line 910)
DayKey(d) == TwoDigits(d.day) \o <<"/">> \o TwoDigits(d.month)

\* time.strftime('%H:%M') if the time is set, else None (lines 912-917)
StrfTime(t) ==
    IF t = NoTime THEN NoTime ELSE TwoDigits(t[1]) \o <<":">> \o TwoDigits(t[2])

\* a variant that gives every instruction a place in the lookup
fill_map_AllTypes(items) ==
    LET last(k) == CHOOSE i \in 1..Len(items) :
                      /\ DayKey(items[i].date) = k
                      /\ \A j \in 1..Len(items) : DayKey(items[j].date) = k => j <= i
    IN  [k \in {DayKey(items[i].date) : i \in 1..Len(items)} |->
            [entry |-> StrfTime(items[last(k)].entry_time),
             exit |-> StrfTime(items[last(k)].exit_time),
             workCode |-> hilan_code(items[last(k)].type)]]

\* the fill lookup (lines 906-919): instructions without a vendor code are
\* skipped, a later instruction replaces an earlier one with the same key
fill_map(items) ==
    LET coded == {i \in 1..Len(items) : hilan_code(items[i].type) # None}
        last(k) == CHOOSE i \in coded :
                      /\ DayKey(items[i].date) = k
                      /\ \A j \in coded : DayKey(items[j].date) = k => j <= i
    IN  [k \in {DayKey(items[i].date) : i \in coded} |->
            [entry |-> StrfTime(items[last(k)].entry_time),
             exit |-> StrfTime(items[last(k)].exit_time),
             workCode |-> hilan_code(items[last(k)].type)]]

\* the leftmost match of the date pattern of the detail script (line 416),
\* its two numbers padded to two digits: the leftmost match of
\* (\d{1,2})\/(\d{1,2}), both numbers padded to two digits, or <<>>
DateMatch(t) ==
    LET isDigit(i) == i \in 1..Len(t) /\ t[i] \in Digits
        \* a match starting at i whose first number has n1 digits
        matches(i, n1) ==
            /\ \A j \in i..(i + n1 - 1) : isDigit(j)
            /\ i + n1 <= Len(t)
            /\ t[i + n1] = "/"
            /\ isDigit(i + n1 + 1)
        starts == {i \in 1..Len(t) : matches(i, 2) \/ matches(i, 1)}
        pad(q) == IF Len(q) = 1 THEN <<"0">> \o q ELSE q
    IN  IF starts = {} THEN <<>>
        ELSE LET i == CHOOSE x \in starts : \A y \in starts : x <= y
                 n1 == IF matches(i, 2) THEN 2 ELSE 1
                 k == i + n1 + 1
                 n2 == IF isDigit(k + 1) THEN 2 ELSE 1
             IN  pad(SubSeq(t, i, i + n1 - 1)) \o <<"/">>
                   \o pad(SubSeq(t, k, k + n2 - 1))

(***************************************************************************)
(* Idle values of the parts a specification does not exercise.             *)
(***************************************************************************)
DatesIdle ==
    /\ for_date = None
    /\ start_day = 0
    /\ period = None
    /\ cell_in = None
    /\ cell = None

ParseIdle ==
    /\ time_str = <<>>
    /\ parsed = NoTime
    /\ raised = FALSE

StatusIdle ==
    /\ status_text = <<>>
    /\ status_note = NoNote

PlanIdle ==
    /\ entry_point = None
    /\ records = <<>>
    /\ pattern = None
    /\ today_only = FALSE
    /\ up_to_today = FALSE
    /\ today_date = None
    /\ to_fill = <<>>
    /\ confirmed = FALSE
    /\ batch_called = FALSE

\* no batch has started
BatchIdle ==
    /\ dry_run = FALSE
    /\ records_to_fill = <<>>
    /\ result = <<>>
    /\ caught = None
    /\ portal_log = <<>>
    /\ notice_seen = 0
    /\ ok_visible = FALSE
    /\ clear_visible = FALSE
    /\ rows_seen = 0
    /\ rows_matched = 0
    /\ filled = 0
    /\ browser_used = FALSE

\* no detail extraction has started
DetailIdle ==
    /\ detail_rows = <<>>
    /\ detail_i = 0
    /\ by_date_key = <<>>

\* no browser session exists
SessionIdle ==
    /\ playwright = FALSE
    /\ browser = FALSE
    /\ context = FALSE
    /\ page = FALSE
    /\ is_logged_in = FALSE
    /\ stopped = FALSE
    /\ session_log = <<>>
    /\ ending = None

\* no attendance is being read
ReadIdle ==
    /\ scan_arg = None
    /\ cells = <<>>
    /\ cell_i = 0
    /\ coarse = <<>>
    /\ selected_count = 0
    /\ detail_list = <<>>
    /\ fallback_data = <<>>
    /\ read_log = <<>>

(***************************************************************************)
(* SpecPeriod: a date is mapped to its pay period (Config.pay_period), and *)
(* the calendar scan maps the date's cell of that period back to a date.   *)
(***************************************************************************)
InitPeriod ==
    /\ pc = "period_input"
    /\ for_date \in ValidDates
    /\ start_day \in StartDays
    /\ period = None
    /\ cell_in = None
    /\ cell = None
    /\ ParseIdle
    /\ StatusIdle
    /\ PlanIdle
    /\ BatchIdle
    /\ DetailIdle
    /\ SessionIdle
    /\ ReadIdle

GetPayPeriod ==
    /\ pc = "period_input"
    /\ period' = get_pay_period(for_date, start_day)
    /\ pc' = "period_done"
    /\ UNCHANGED <<for_date, start_day, cell_in, cell, notDates>>

\* the cell showing for_date.day in the grid of the period just computed
GetCellOfPeriod ==
    /\ pc = "period_done"
    /\ cell_in' = <<for_date.day, period[2], period[1]>>
    /\ cell' = get_cell_date(for_date.day, period[2], period[1], start_day)
    /\ pc' = "period_cell"
    /\ UNCHANGED <<for_date, start_day, period, notDates>>

NextPeriod == GetPayPeriod \/ GetCellOfPeriod

SpecPeriod == InitPeriod /\ [][NextPeriod]_vars

(***************************************************************************)
(* SpecCell: get_cell_date on any cell of any period grid.                 *)
(***************************************************************************)
InitCell ==
    /\ pc = "cell_input"
    /\ for_date = None
    /\ start_day \in StartDays
    /\ period = None
    /\ cell_in \in (1..31) \X (1..12) \X Years
    /\ cell = None
    /\ ParseIdle
    /\ StatusIdle
    /\ PlanIdle
    /\ BatchIdle
    /\ DetailIdle
    /\ SessionIdle
    /\ ReadIdle

GetCellDate ==
    /\ pc = "cell_input"
    /\ cell' = get_cell_date(cell_in[1], cell_in[2], cell_in[3], start_day)
    /\ pc' = "cell_done"
    /\ UNCHANGED <<for_date, start_day, period, cell_in, notDates>>

NextCell == GetCellDate

SpecCell == InitCell /\ [][NextCell]_vars

(***************************************************************************)
(* SpecParse: parse_time_string on any text of at most MaxTimeLen          *)
(* characters.                                                             *)
(***************************************************************************)
InitParse ==
    /\ pc = "parse_input"
    /\ DatesIdle
    /\ time_str \in TimeTexts
    /\ parsed = NoTime
    /\ raised = FALSE
    /\ StatusIdle
    /\ PlanIdle
    /\ BatchIdle
    /\ DetailIdle
    /\ SessionIdle
    /\ ReadIdle

ParseTimeString ==
    /\ pc = "parse_input"
    /\ LET r == parse_time_string(time_str)
       IN  /\ parsed' = r.value
           /\ raised' = r.raised
    /\ pc' = "parse_done"
    /\ UNCHANGED <<notParse, time_str>>

NextParse == ParseTimeString

SpecParse == InitParse /\ [][NextParse]_vars

(***************************************************************************)
(* SpecStatus: StatusNotes.detect_in on the text of a calendar cell: a     *)
(* phrase with at most MaxPad letters before and after it.                 *)
(***************************************************************************)
MaxPad == 1

PadLetters == {" ", "het", "gimel"}

StatusPads == UNION {[1..n -> PadLetters] : n \in 0..MaxPad}

\* every status keyword of both vocabularies, a time, a word that is no
\* keyword, and nothing
Phrases ==
    {DayTypes[i] : i \in 1..Len(DayTypes)}
      \cup {StatusNotes[i].value : i \in 1..Len(StatusNotes)}
      \cup {<<"9", ":", "0", "0">>, <<"ayin", "bet", "vav", "dalet", "he">>, <<>>}

StatusTexts ==
    {pre \o mid \o post : pre \in StatusPads, mid \in Phrases, post \in StatusPads}

InitStatus ==
    /\ pc = "status_input"
    /\ DatesIdle
    /\ ParseIdle
    /\ status_text \in StatusTexts
    /\ status_note = NoNote
    /\ PlanIdle
    /\ BatchIdle
    /\ DetailIdle
    /\ SessionIdle
    /\ ReadIdle

DetectIn ==
    /\ pc = "status_input"
    /\ status_note' = detect_in(status_text)
    /\ pc' = "status_done"
    /\ UNCHANGED <<notStatus, status_text>>

NextStatus == DetectIn

SpecStatus == InitStatus /\ [][NextStatus]_vars

(***************************************************************************)
(* CalendarPage.fill_batch, step by step.  The portal answers each step as *)
(* it likes: which controls are visible, which days can be clicked,        *)
(* whether the 'no days selected' notice shows, which detail rows are      *)
(* revealed.                                                               *)
(***************************************************************************)
\* the detail rows the page shows at most
MaxRows == 2

IsTuple(items) == \E i \in 1..Len(items) : items[i].class = "tuple"

batchRest == <<rows_seen, rows_matched, filled>>

\* a variant that clears the selection before looking at the list
BatchEmpty_Clear ==
    /\ pc = "batch_call"
    /\ records_to_fill = <<>>
    /\ portal_log' = Append(portal_log, "clear")
    /\ browser_used' = TRUE
    /\ result' = <<0, 0>>
    /\ pc' = "batch_done"
    /\ UNCHANGED <<notFill, planVars, raised, dry_run, records_to_fill, caught,
                   notice_seen, ok_visible, clear_visible, batchRest>>

\* lines 748-749
BatchEmpty ==
    /\ pc = "batch_call"
    /\ records_to_fill = <<>>
    /\ result' = <<0, 0>>
    /\ pc' = "batch_done"
    /\ UNCHANGED <<notFill, planVars, raised, dry_run, records_to_fill, caught,
                   portal_log, notice_seen, ok_visible,
                   clear_visible, batchRest>>
    /\ UNCHANGED browser_used

\* a variant whose dry run reports every instruction as failed
BatchDryRun_Failed ==
    /\ pc = "batch_call"
    /\ records_to_fill # <<>>
    /\ dry_run
    /\ result' = <<0, N>>
    /\ pc' = "batch_done"
    /\ UNCHANGED <<notFill, planVars, raised, dry_run, records_to_fill, caught,
                   portal_log, notice_seen, ok_visible, clear_visible, batchRest,
                   browser_used>>

\* lines 753-774; instruction.date of a tuple raises AttributeError, here
\* outside the try block
BatchDryRun ==
    /\ pc = "batch_call"
    /\ records_to_fill # <<>>
    /\ dry_run
    /\ IF IsTuple(records_to_fill)
       THEN /\ raised' = TRUE
            /\ pc' = "raised"
            /\ UNCHANGED result
       ELSE /\ result' = <<N, 0>>
            /\ pc' = "batch_done"
            /\ UNCHANGED raised
    /\ UNCHANGED <<dateVars, time_str, parsed, statusVars, detailVars,
                   sessionVars, readVars, planVars, dry_run, records_to_fill, caught, portal_log, notice_seen, ok_visible, clear_visible, batchRest>>
    /\ UNCHANGED browser_used

\* step 1, lines 777-782
BatchClear ==
    /\ pc = "batch_call"
    /\ records_to_fill # <<>>
    /\ ~dry_run
    /\ \E visible \in BOOLEAN :
          /\ clear_visible' = visible
          /\ portal_log' = IF visible THEN Append(portal_log, "clear") ELSE portal_log
    /\ pc' = "batch_select"
    /\ UNCHANGED <<notFill, planVars, raised, dry_run, records_to_fill, result,
                   caught, notice_seen, ok_visible, batchRest>>
    /\ browser_used' = TRUE

\* lines 786-788 on tuples: instruction.date raises AttributeError, which
\* the handler of lines 1086-1088 turns into (0, N)
BatchAttributeError ==
    /\ pc = "batch_select"
    /\ IsTuple(records_to_fill)
    /\ caught' = "AttributeError"
    /\ result' = <<0, N>>
    /\ pc' = "batch_done"
    /\ UNCHANGED <<notFill, planVars, raised, dry_run, records_to_fill,
                   portal_log, notice_seen, ok_visible,
                   clear_visible, batchRest>>
    /\ UNCHANGED browser_used

\* a variant that goes on to the reveal even if no day was clicked
BatchSelectDays_GoOn ==
    /\ pc = "batch_select"
    /\ ~IsTuple(records_to_fill)
    /\ \E clickedDays \in SUBSET day_numbers(records_to_fill) :
          portal_log' = IF clickedDays = {} THEN portal_log
                        ELSE Append(portal_log, "select")
    /\ pc' = "batch_reveal"
    /\ browser_used' = TRUE
    /\ UNCHANGED <<notFill, planVars, raised, dry_run, records_to_fill, result,
                   caught, notice_seen, ok_visible, clear_visible, batchRest>>

\* step 2, lines 784-845: the click script reports the days it clicked
BatchSelectDays ==
    /\ pc = "batch_select"
    /\ ~IsTuple(records_to_fill)
    /\ \E clickedDays \in SUBSET day_numbers(records_to_fill) :
          IF clickedDays = {}
          THEN /\ result' = <<0, N>>
               /\ pc' = "batch_done"
               /\ UNCHANGED portal_log
          ELSE /\ portal_log' = Append(portal_log, "select")
               /\ pc' = "batch_reveal"
               /\ UNCHANGED result
    /\ UNCHANGED <<notFill, planVars, raised, dry_run, records_to_fill, caught,
                   notice_seen, ok_visible, clear_visible,
                   batchRest>>
    /\ browser_used' = TRUE

\* step 3, lines 847-854 and 898-900: the reveal control, and the notice
BatchReveal ==
    /\ pc = "batch_reveal"
    /\ \E found \in BOOLEAN, notice \in BOOLEAN :
          IF ~found
          THEN /\ pc' = "batch_write"
               /\ UNCHANGED <<portal_log, notice_seen>>
          ELSE /\ portal_log' = Append(portal_log, "reveal")
               /\ IF notice
                  THEN /\ notice_seen' = 1
                       /\ pc' = "batch_notice"
                  ELSE /\ pc' = "batch_write"
                       /\ UNCHANGED notice_seen
    /\ UNCHANGED <<notFill, planVars, raised, dry_run, records_to_fill, result,
                   caught, ok_visible, clear_visible, batchRest>>
    /\ browser_used' = TRUE

\* lines 858-861: the notice is dismissed if its OK control is visible
RetryDismiss ==
    /\ pc = "batch_notice"
    /\ \E visible \in BOOLEAN :
          /\ ok_visible' = visible
          /\ portal_log' = IF visible THEN Append(portal_log, "dismiss") ELSE portal_log
    /\ pc' = "batch_retry_clear"
    /\ UNCHANGED <<notFill, planVars, raised, dry_run, records_to_fill, result,
                   caught, notice_seen, clear_visible, batchRest>>
    /\ browser_used' = TRUE

\* lines 863-865
RetryClear ==
    /\ pc = "batch_retry_clear"
    /\ \E visible \in BOOLEAN :
          /\ clear_visible' = visible
          /\ portal_log' = IF visible THEN Append(portal_log, "clear") ELSE portal_log
    /\ pc' = "batch_retry_select"
    /\ UNCHANGED <<notFill, planVars, raised, dry_run, records_to_fill, result,
                   caught, notice_seen, ok_visible, batchRest>>
    /\ browser_used' = TRUE

\* lines 867-890: the days are clicked again, cell by cell
RetrySelect ==
    /\ pc = "batch_retry_select"
    /\ \E retry_clicked_days \in SUBSET day_numbers(records_to_fill) :
          IF retry_clicked_days = {}
          THEN /\ result' = <<0, N>>
               /\ pc' = "batch_done"
               /\ UNCHANGED portal_log
          ELSE /\ portal_log' = Append(portal_log, "select")
               /\ pc' = "batch_retry_reveal"
               /\ UNCHANGED result
    /\ UNCHANGED <<notFill, planVars, raised, dry_run, records_to_fill, caught,
                   notice_seen, ok_visible, clear_visible,
                   batchRest>>
    /\ browser_used' = TRUE

\* a variant that goes back to the notice handling whenever the notice shows
RetryReveal_Again ==
    /\ pc = "batch_retry_reveal"
    /\ portal_log' = Append(portal_log, "reveal")
    /\ \E notice \in BOOLEAN :
          IF notice
          THEN /\ notice_seen' = notice_seen + 1
               /\ pc' = "batch_notice"
          ELSE /\ pc' = "batch_write"
               /\ UNCHANGED notice_seen
    /\ UNCHANGED <<notFill, planVars, raised, dry_run, records_to_fill, result,
                   caught, ok_visible, clear_visible, batchRest>>
    /\ browser_used' = TRUE

\* lines 892-896: reveal once more; a notice that is still there ends the batch
RetryReveal ==
    /\ pc = "batch_retry_reveal"
    /\ portal_log' = Append(portal_log, "reveal")
    /\ \E notice \in BOOLEAN :
          IF notice
          THEN /\ notice_seen' = 2
               /\ result' = <<0, N>>
               /\ pc' = "batch_done"
          ELSE /\ pc' = "batch_write"
               /\ UNCHANGED <<notice_seen, result>>
    /\ UNCHANGED <<notFill, planVars, raised, dry_run, records_to_fill, caught,
                   ok_visible, clear_visible, batchRest>>
    /\ browser_used' = TRUE

\* a variant in which the page accepts the script: every row the lookup has
\* a key for is written and counted (lines 962-1007), and the save of lines
\* 1052-1062 follows if any row was counted
BatchFillScript_Runs ==
    /\ pc = "batch_write"
    /\ \E shown \in 0..MaxRows :
          \E targets \in 0..(IF DOMAIN fill_map(records_to_fill) = {}
                             THEN 0 ELSE shown) :
              /\ rows_seen' = shown
              /\ rows_matched' = targets
              /\ filled' = targets
              /\ portal_log' = IF targets > 0
                               THEN portal_log \o <<"write", "save">>
                               ELSE portal_log
              /\ result' = IF targets > 0 THEN <<targets, N - targets>>
                                          ELSE <<0, N>>
    /\ browser_used' = TRUE
    /\ pc' = "batch_done"
    /\ UNCHANGED <<notFill, planVars, raised, dry_run, records_to_fill,
                   caught, notice_seen, ok_visible, clear_visible>>

\* a variant whose exception handler reports no failed instruction
BatchFillScript_NoFailed ==
    /\ pc = "batch_write"
    /\ \E shown \in 0..MaxRows :
          \E targets \in 0..(IF DOMAIN fill_map(records_to_fill) = {}
                             THEN 0 ELSE shown) :
              /\ rows_seen' = shown
              /\ rows_matched' = targets
    /\ browser_used' = TRUE
    /\ caught' = "SyntaxError"
    /\ result' = <<0, 0>>
    /\ pc' = "batch_done"
    /\ UNCHANGED <<notFill, planVars, raised, dry_run, records_to_fill,
                   portal_log, notice_seen, ok_visible, clear_visible, filled>>

\* step 4, lines 902-1026.  The fill lookup is built and the fill script is
\* sent to the page together with it.  The script is a raw string, not an
\* f-string (line 922), yet its braces are doubled throughout (lines
\* 923-1023): 'return {{ success: false, ... }}' (line 945) and
\* 'new Event('change', {{ bubbles: true }})' (line 984) are not JavaScript,
\* so the page rejects the whole script with a SyntaxError before any of it
\* runs.  page.evaluate raises, and the handler of lines 1086-1088 returns
\* (0, N): whatever rows the page shows, none is written, and the save step
\* of lines 1052-1084 is never reached.
BatchFillScript ==
    /\ pc = "batch_write"
    /\ \E shown \in 0..MaxRows :
          \E targets \in 0..(IF DOMAIN fill_map(records_to_fill) = {}
                             THEN 0 ELSE shown) :
              /\ rows_seen' = shown
              /\ rows_matched' = targets
    /\ browser_used' = TRUE
    /\ caught' = "SyntaxError"
    /\ result' = <<0, N>>
    /\ pc' = "batch_done"
    /\ UNCHANGED <<notFill, planVars, raised, dry_run, records_to_fill,
                   portal_log, notice_seen, ok_visible, clear_visible, filled>>

\* the batch is inside the try block of lines 776-1085
InTry ==
    IF pc = "batch_call"
    THEN records_to_fill # <<>> /\ ~dry_run
    ELSE pc \in {"batch_select", "batch_reveal", "batch_notice",
                 "batch_retry_clear", "batch_retry_select",
                 "batch_retry_reveal", "batch_write"}

\* lines 776 and 1086-1088: a browser call of any step raises
BatchRaise ==
    /\ InTry
    /\ caught' = "Exception"
    /\ result' = <<0, N>>
    /\ pc' = "batch_done"
    /\ UNCHANGED <<notFill, planVars, raised, dry_run, records_to_fill,
                   portal_log, notice_seen, ok_visible, clear_visible, batchRest>>
    /\ browser_used' = TRUE

(***************************************************************************)
(* SpecBatch: fill_batch called (through HilanBrowser.fill_batch_attendance)*)
(* with a list of FillInstructions.                                        *)
(***************************************************************************)
MaxInstr == 2

BatchDates == {Date(2025, 12, 21), Date(2026, 1, 5)}

\* for the first date an instruction with both times, with and without a
\* vendor code; for the second one with the entry or the exit time only
FillInstructions ==
    {i \in [class : {"FillInstruction"}, date : BatchDates,
            type : {OFFICE, SKIP}, entry_time : {NoTime, <<9, 0>>},
            exit_time : {NoTime, <<18, 0>>}] :
        IF i.date = Date(2025, 12, 21)
        THEN i.entry_time # NoTime /\ i.exit_time # NoTime
        ELSE i.type = OFFICE /\ (i.entry_time = NoTime) # (i.exit_time = NoTime)}

InitBatch ==
    /\ pc = "batch_call"
    /\ DatesIdle
    /\ ParseIdle
    /\ StatusIdle
    /\ DetailIdle
    /\ SessionIdle
    /\ ReadIdle
    /\ entry_point = "fill_batch"
    /\ records = <<>>
    /\ pattern = None
    /\ today_only = FALSE
    /\ up_to_today = FALSE
    /\ today_date = None
    /\ to_fill = <<>>
    /\ confirmed = FALSE
    /\ batch_called = FALSE
    /\ dry_run \in BOOLEAN
    /\ records_to_fill \in UNION {[1..n -> FillInstructions] : n \in 0..MaxInstr}
    /\ result = <<>>
    /\ caught = None
    /\ portal_log = <<>>
    /\ notice_seen = 0
    /\ ok_visible = FALSE
    /\ clear_visible = FALSE
    /\ rows_seen = 0
    /\ rows_matched = 0
    /\ filled = 0
    /\ browser_used = FALSE

NextBatch ==
    \/ BatchEmpty
    \/ BatchDryRun
    \/ BatchClear
    \/ BatchSelectDays
    \/ BatchReveal
    \/ RetryDismiss
    \/ RetryClear
    \/ RetrySelect
    \/ RetryReveal
    \/ BatchFillScript
    \/ BatchRaise

SpecBatch == InitBatch /\ [][NextBatch]_vars

(***************************************************************************)
(* SpecPlan: the fill targets.  Either run_attendance_flow selects them    *)
(* from the fetched records, asks, and calls fill_attendance, or           *)
(* fill_attendance is called directly; fill_attendance builds its items    *)
(* and hands them to fill_batch.                                           *)
(***************************************************************************)
MaxRecords == 2

\* a Sunday and a Friday of one pay period
PlanDates == {Date(2025, 12, 21), Date(2025, 12, 26)}

\* date.today()
Today == Date(2025, 12, 21)

\* fetched records: empty, entry only, exit only, complete, and empty with
\* a note
AttendanceRecords ==
    {r \in [date : PlanDates, entry_time : {NoTime, <<8, 30>>},
            exit_time : {NoTime, <<17, 0>>}, note : {NoNote, VACATION}] :
        HasNote(r) => ~has_existing_entry(r) /\ ~has_existing_exit(r)}

InitPlan ==
    /\ DatesIdle
    /\ ParseIdle
    /\ StatusIdle
    /\ DetailIdle
    /\ SessionIdle
    /\ ReadIdle
    /\ entry_point \in {"run_attendance_flow", "fill_attendance"}
    /\ pc = IF entry_point = "run_attendance_flow" THEN "flow_call" ELSE "fill_call"
    /\ records \in UNION {[1..n -> AttendanceRecords] : n \in 0..MaxRecords}
    /\ pattern \in {DefaultPattern, FridayPattern}
    /\ today_only \in BOOLEAN
    /\ up_to_today \in BOOLEAN
    /\ entry_point = "fill_attendance" => ~today_only /\ ~up_to_today
    /\ today_date = Today
    /\ to_fill = <<>>
    /\ confirmed = FALSE
    /\ batch_called = FALSE
    /\ dry_run \in BOOLEAN
    /\ records_to_fill = <<>>
    /\ result = <<>>
    /\ caught = None
    /\ portal_log = <<>>
    /\ notice_seen = 0
    /\ ok_visible = FALSE
    /\ clear_visible = FALSE
    /\ rows_seen = 0
    /\ rows_matched = 0
    /\ filled = 0
    /\ browser_used = FALSE

\* run_attendance_flow, lines 148-193: select, and stop if there is nothing
\* to fill or the run is a dry run
FlowPlan ==
    /\ pc = "flow_call"
    /\ to_fill' = ToFill(records, pattern, up_to_today, today_only, today_date)
    /\ pc' = IF to_fill' = <<>> \/ dry_run THEN "flow_done"
             ELSE IF today_only THEN "fill_call"
             ELSE "flow_confirm"
    /\ UNCHANGED <<notFill, entry_point, records, pattern, today_only,
                   up_to_today, today_date, confirmed, batch_called, batchVars>>

\* a variant that fills whatever the answer is
FlowConfirm_Ignore ==
    /\ pc = "flow_confirm"
    /\ \E answer \in BOOLEAN :
          /\ confirmed' = answer
          /\ pc' = "fill_call"
    /\ UNCHANGED <<notFill, entry_point, records, pattern, today_only,
                   up_to_today, today_date, to_fill, batch_called, batchVars>>

\* lines 195-200: Confirm.ask
FlowConfirm ==
    /\ pc = "flow_confirm"
    /\ \E answer \in BOOLEAN :
          /\ confirmed' = answer
          /\ pc' = IF answer THEN "fill_call" ELSE "flow_done"
    /\ UNCHANGED <<notFill, entry_point, records, pattern, today_only,
                   up_to_today, today_date, to_fill, batch_called, batchVars>>

\* fill_attendance, lines 35-72, up to the call of fill_batch_attendance
FillAttendance ==
    /\ pc = "fill_call"
    /\ records_to_fill' =
          BuildRecordsToFill(records, pattern,
                             IF entry_point = "run_attendance_flow"
                             THEN DatesOf(to_fill) ELSE <<>>)
    /\ IF records_to_fill' = <<>>
       THEN /\ result' = <<0, 0>>
            /\ pc' = "fill_returned"
            /\ UNCHANGED batch_called
       ELSE /\ batch_called' = TRUE
            /\ pc' = "batch_call"
            /\ UNCHANGED result
    /\ UNCHANGED <<notFill, entry_point, records, pattern, today_only,
                   up_to_today, today_date, to_fill, confirmed, dry_run, caught,
                   portal_log, notice_seen, ok_visible, clear_visible, batchRest,
                   browser_used>>

\* fill_attendance, line 72: the pair of fill_batch is returned as it is
FillReturn ==
    /\ pc = "batch_done"
    /\ entry_point \in {"run_attendance_flow", "fill_attendance"}
    /\ pc' = "fill_returned"
    /\ UNCHANGED <<notFill, planVars, batchVars>>

\* run_attendance_flow, lines 210-217: the counts are reported
FlowReport ==
    /\ pc = "fill_returned"
    /\ entry_point = "run_attendance_flow"
    /\ pc' = "flow_done"
    /\ UNCHANGED <<notFill, planVars, batchVars>>

NextPlan ==
    \/ FlowPlan
    \/ FlowConfirm
    \/ FillAttendance
    \/ BatchDryRun
    \/ BatchClear
    \/ BatchAttributeError
    \/ BatchRaise
    \/ FillReturn
    \/ FlowReport

SpecPlan == InitPlan /\ [][NextPlan]_vars

(***************************************************************************)
(* SpecFill: the three ways into the fill, side by side: the flow, a       *)
(* direct call of fill_attendance and a direct call of fill_batch.         *)
(***************************************************************************)
InitFill == InitPlan \/ InitBatch

NextFill == NextPlan \/ NextBatch

SpecFill == InitFill /\ [][NextFill]_vars

(***************************************************************************)
(* SpecMerge: the detail script of get_attendance walks the visible detail *)
(* rows in document order and merges them by date into byDateKey.          *)
(***************************************************************************)
MaxDetailRows == 3

\* what the script reads from one detail row: the text of the date cell,
\* the times of the entry and exit cells ('' if none), the value of the
\* work-type selector, the two 'missing' flags of the special cell
DetailRow(dateText, entry, exit, code, noEntry, noExit) ==
    [dateText |-> dateText, entry |-> entry, exit |-> exit,
     workTypeCode |-> code, missingEntry |-> noEntry, missingExit |-> noExit]

ScannedRows ==
    {DetailRow(<<"5", "/", "1">>, "08:30", "", "", FALSE, TRUE),
     DetailRow(<<"0", "5", "/", "0", "1">>, "", "17:00", "103", TRUE, FALSE),
     DetailRow(<<"5", "/", "1">>, "", "", "", FALSE, FALSE),
     DetailRow(<<"0", "5", "/", "0", "1">>, "09:15", "18:00", "101", FALSE, FALSE),
     DetailRow(<<"2", "1", "/", "1", "2">>, "08:30", "", "", FALSE, TRUE),
     DetailRow(<<"2", "1", "/", "1", "2">>, "", "17:00", "", TRUE, FALSE),
     DetailRow(<<>>, "08:30", "17:00", "103", FALSE, FALSE)}

\* no match of the date pattern
NoDate == [day |-> 0, month |-> 0]

\* extractDateParts (lines 412-422): the numbers of the leftmost
\* (\d{1,2})\/(\d{1,2}) of the text, or null
extractDateParts(dateText) ==
    LET key == DateMatch(dateText)
    IN  IF key = <<>> THEN NoDate
        ELSE [day |-> IntOf(SubSeq(key, 1, 2)), month |-> IntOf(SubSeq(key, 4, 5))]

\* a || b on strings: a unless it is empty
OrElse(a, b) == IF a # "" THEN a ELSE b

\* the candidate built from a row (lines 480-488)
Candidate(row) ==
    [day |-> extractDateParts(row.dateText).day,
     month |-> extractDateParts(row.dateText).month,
     entry |-> row.entry, exit |-> row.exit, workTypeCode |-> row.workTypeCode,
     missingEntry |-> row.missingEntry, missingExit |-> row.missingExit]

\* a variant in which the later row wins
mergeRow_LastWins(existing, candidate) ==
    [day |-> existing.day,
     month |-> existing.month,
     entry |-> OrElse(candidate.entry, existing.entry),
     exit |-> OrElse(candidate.exit, existing.exit),
     workTypeCode |-> OrElse(candidate.workTypeCode, existing.workTypeCode),
     missingEntry |-> (existing.missingEntry \/ candidate.missingEntry),
     missingExit |-> (existing.missingExit \/ candidate.missingExit)]

\* mergeRow (lines 424-435), for an existing row
mergeRow(existing, candidate) ==
    [day |-> existing.day,
     month |-> existing.month,
     entry |-> OrElse(existing.entry, candidate.entry),
     exit |-> OrElse(existing.exit, candidate.exit),
     workTypeCode |-> OrElse(existing.workTypeCode, candidate.workTypeCode),
     missingEntry |-> (existing.missingEntry \/ candidate.missingEntry),
     missingExit |-> (existing.missingExit \/ candidate.missingExit)]

\* `${day}/${month}` (line 490)
DateKey(r) == <<r.day, r.month>>

\* byDateKey.set(key, mergeRow(byDateKey.get(key), candidate)) (line 491):
\* a Map keeps the place of a key it already has
MapSet(byKey, candidate) ==
    LET at == {i \in 1..Len(byKey) : DateKey(byKey[i]) = DateKey(candidate)}
    IN  IF at = {} THEN Append(byKey, candidate)
        ELSE [i \in 1..Len(byKey) |->
                 IF i \in at THEN mergeRow(byKey[i], candidate) ELSE byKey[i]]

InitMerge ==
    /\ pc = "detail_scan"
    /\ DatesIdle
    /\ ParseIdle
    /\ StatusIdle
    /\ PlanIdle
    /\ BatchIdle
    /\ SessionIdle
    /\ ReadIdle
    /\ detail_rows \in UNION {[1..n -> ScannedRows] : n \in 0..MaxDetailRows}
    /\ detail_i = 0
    /\ by_date_key = <<>>

\* one pass of the loop of lines 442-492
DetailMergeRow ==
    /\ pc = "detail_scan"
    /\ detail_i < Len(detail_rows)
    /\ detail_i' = detail_i + 1
    /\ LET row == detail_rows[detail_i + 1]
       IN  by_date_key' = IF extractDateParts(row.dateText) = NoDate
                          THEN by_date_key
                          ELSE MapSet(by_date_key, Candidate(row))
    /\ UNCHANGED <<pc, notDetail, detail_rows>>

\* line 494: the values of byDateKey are returned
DetailReturn ==
    /\ pc = "detail_scan"
    /\ detail_i = Len(detail_rows)
    /\ pc' = "detail_done"
    /\ UNCHANGED <<notDetail, detailVars>>

NextMerge ==
    \/ DetailMergeRow
    \/ DetailReturn

SpecMerge == InitMerge /\ [][NextMerge]_vars

(***************************************************************************)
(* SpecSession: one run of run_attendance_flow seen from the browser       *)
(* session: 'with HilanBrowser(config) as browser' starts the session, the *)
(* body logs in, fetches, plans and fills, and __exit__ stops the session. *)
(* What the portal shows (controls, landing page, records) is the          *)
(* environment's choice, and any browser call may raise.                   *)
(***************************************************************************)
\* the steps of BrowserSession.start, and of BrowserSession.stop, in order
StartSteps == <<"playwright", "browser", "context", "page">>
NoStep == 0

InitSession ==
    /\ pc = "session_enter"
    /\ DatesIdle
    /\ ParseIdle
    /\ StatusIdle
    /\ DetailIdle
    /\ SessionIdle
    /\ ReadIdle
    /\ entry_point = "run_attendance_flow"
    /\ records = <<>>
    /\ pattern = None
    /\ today_only \in BOOLEAN
    /\ up_to_today \in BOOLEAN
    /\ today_date = None
    /\ to_fill = <<>>
    /\ confirmed = FALSE
    /\ batch_called = FALSE
    /\ dry_run \in BOOLEAN
    /\ records_to_fill = <<>>
    /\ result = <<>>
    /\ caught = None
    /\ portal_log = <<>>
    /\ notice_seen = 0
    /\ ok_visible = FALSE
    /\ clear_visible = FALSE
    /\ rows_seen = 0
    /\ rows_matched = 0
    /\ filled = 0
    /\ browser_used = FALSE

sessionRest == <<dateVars, time_str, parsed, statusVars, detailVars, readVars, entry_point,
                 records, pattern, today_only, up_to_today, today_date, to_fill,
                 batch_called, records_to_fill, result, caught, portal_log,
                 notice_seen, ok_visible, clear_visible, rows_seen, rows_matched,
                 filled,
                 browser_used>>

\* HilanBrowser.__enter__ (browser.py:40-43) runs BrowserSession.start
\* (session.py:34-45).  If a step of start raises, the handles of the steps
\* before it stay set and the with statement does not run __exit__.
SessionStart ==
    /\ pc = "session_enter"
    /\ \E failing \in {NoStep} \cup DOMAIN StartSteps :
          /\ playwright' = (failing = NoStep \/ failing > 1)
          /\ browser' = (failing = NoStep \/ failing > 2)
          /\ context' = (failing = NoStep \/ failing > 3)
          /\ page' = (failing = NoStep)
          /\ IF failing = NoStep
             THEN /\ pc' = "login_goto"
                  /\ UNCHANGED <<raised, ending>>
             ELSE /\ raised' = TRUE
                  /\ ending' = "start_failed"
                  /\ pc' = "raised"
    /\ UNCHANGED <<sessionRest, dry_run, confirmed, is_logged_in, stopped,
                   session_log>>

\* LoginPage.login (login.py:37-55): open the login page, fill the two
\* fields and submit; a control that cannot be used ends the login
LoginSubmit ==
    /\ pc = "login_goto"
    /\ \E missing \in {"none", "username", "password", "submit"} :
          /\ session_log' = session_log \o
                CASE missing = "username" -> <<"goto_login">>
                  [] missing = "password" -> <<"goto_login", "fill_username">>
                  [] missing = "submit" ->
                        <<"goto_login", "fill_username", "fill_password">>
                  [] OTHER -> <<"goto_login", "fill_username", "fill_password",
                                "submit">>
          /\ IF missing = "none"
             THEN /\ pc' = "login_check"
                  /\ UNCHANGED ending
             ELSE /\ ending' = "login_failed"
                  /\ pc' = "session_exit"
    /\ UNCHANGED <<sessionRest, raised, dry_run, confirmed, playwright, browser,
                   context, page, is_logged_in, stopped>>

\* a variant that takes a submitted form for a login
LoginCheck_Trusting ==
    /\ pc = "login_check"
    /\ \E on_home \in BOOLEAN :
          /\ session_log' = Append(session_log,
                                   IF on_home THEN "home_page" ELSE "other_page")
          /\ is_logged_in' = TRUE
          /\ IF on_home
             THEN /\ pc' = "navigate"
                  /\ UNCHANGED ending
             ELSE /\ ending' = "login_failed"
                  /\ pc' = "session_exit"
    /\ UNCHANGED <<sessionRest, raised, dry_run, confirmed, playwright, browser,
                   context, page, stopped>>

\* HilanBrowser.login (browser.py:80-90): the landing page must be the home
\* page; fetch_attendance_data returns None otherwise (attendance.py:88-90)
\* and the flow returns (attendance.py:130-131)
LoginCheck ==
    /\ pc = "login_check"
    /\ \E on_home \in BOOLEAN :
          /\ session_log' = Append(session_log,
                                   IF on_home THEN "home_page" ELSE "other_page")
          /\ IF on_home
             THEN /\ is_logged_in' = TRUE
                  /\ pc' = "navigate"
                  /\ UNCHANGED ending
             ELSE /\ ending' = "login_failed"
                  /\ pc' = "session_exit"
                  /\ UNCHANGED is_logged_in
    /\ UNCHANGED <<sessionRest, raised, dry_run, confirmed, playwright, browser,
                   context, page, stopped>>

\* fetch_attendance_data (attendance.py:92): navigate to the calendar
NavigateToAttendance ==
    /\ pc = "navigate"
    /\ session_log' = Append(session_log, "navigate")
    /\ pc' = "get_attendance"
    /\ UNCHANGED <<sessionRest, raised, dry_run, confirmed, playwright, browser,
                   context, page, is_logged_in, stopped, ending>>

\* fetch_attendance_data (attendance.py:93) and the flow's check of its
\* result (attendance.py:129-131)
GetAttendance ==
    /\ pc = "get_attendance"
    /\ session_log' = Append(session_log, "scan")
    /\ \E fetched \in BOOLEAN :
          IF fetched
          THEN /\ pc' = "flow_plan"
               /\ UNCHANGED ending
          ELSE /\ ending' = "no_attendance"
               /\ pc' = "session_exit"
    /\ UNCHANGED <<sessionRest, raised, dry_run, confirmed, playwright, browser,
                   context, page, is_logged_in, stopped>>

\* run_attendance_flow, lines 148-200: the plan, the dry-run stop and the
\* prompt; whether there is anything to fill depends on the records
SessionPlan ==
    /\ pc = "flow_plan"
    /\ \E targets \in BOOLEAN, answer \in BOOLEAN :
          IF ~targets
          THEN /\ ending' = "nothing_to_fill"
               /\ pc' = "session_exit"
               /\ UNCHANGED confirmed
          ELSE IF dry_run
          THEN /\ ending' = "dry_run"
               /\ pc' = "session_exit"
               /\ UNCHANGED confirmed
          ELSE IF today_only
          THEN /\ pc' = "flow_fill"
               /\ UNCHANGED <<ending, confirmed>>
          ELSE /\ confirmed' = answer
               /\ IF answer
                  THEN /\ pc' = "flow_fill"
                       /\ UNCHANGED ending
                  ELSE /\ ending' = "declined"
                       /\ pc' = "session_exit"
    /\ UNCHANGED <<sessionRest, raised, dry_run, playwright, browser, context,
                   page, is_logged_in, stopped, session_log>>

\* run_attendance_flow, lines 202-217: fill and report
SessionFill ==
    /\ pc = "flow_fill"
    /\ session_log' = Append(session_log, "fill")
    /\ ending' = "filled"
    /\ pc' = "session_exit"
    /\ UNCHANGED <<sessionRest, raised, dry_run, confirmed, playwright, browser,
                   context, page, is_logged_in, stopped>>

\* the body of the with statement is running
InBody ==
    pc \in {"login_goto", "login_check", "navigate", "get_attendance",
            "flow_plan", "flow_fill"}

\* a call of the body raises: the with statement goes to __exit__
SessionBodyRaise ==
    /\ InBody
    /\ raised' = TRUE
    /\ ending' = "exception"
    /\ pc' = "session_exit"
    /\ UNCHANGED <<sessionRest, dry_run, confirmed, playwright, browser, context,
                   page, is_logged_in, stopped, session_log>>

\* HilanBrowser.__exit__ (browser.py:45-47) runs BrowserSession.stop
\* (session.py:47-61): the handles are closed and unset one after the other;
\* a close that raises leaves the rest of stop undone
SessionStop ==
    /\ pc = "session_exit"
    /\ stopped' = TRUE
    /\ \E failing \in {NoStep} \cup DOMAIN StartSteps :
          /\ page' = (page /\ failing = 4)
          /\ context' = (context /\ failing \in {3, 4})
          /\ browser' = (browser /\ failing \in {2, 3, 4})
          /\ playwright' = (playwright /\ failing # NoStep)
          /\ IF failing = NoStep
             THEN /\ is_logged_in' = FALSE
                  /\ pc' = IF raised THEN "raised" ELSE "flow_done"
                  /\ UNCHANGED <<raised, ending>>
             ELSE /\ raised' = TRUE
                  /\ ending' = "stop_failed"
                  /\ pc' = "raised"
                  /\ UNCHANGED is_logged_in
    /\ UNCHANGED <<sessionRest, dry_run, confirmed, session_log>>

NextSession ==
    \/ SessionStart
    \/ LoginSubmit
    \/ LoginCheck
    \/ NavigateToAttendance
    \/ GetAttendance
    \/ SessionPlan
    \/ SessionFill
    \/ SessionBodyRaise
    \/ SessionStop

SpecSession == InitSession /\ [][NextSession]_vars

(***************************************************************************)
(* SpecScan: _parse_calendar walks the td[days] cells of the calendar grid *)
(* and _parse_day_cell turns each into an AttendanceRecord or into None.   *)
(***************************************************************************)
MaxCells == 2

\* what _parse_day_cell reads from a cell: the aria-label attribute, the
\* text of its .dTS element, the title attribute, the text of its .cDM
\* element (each <<>> if absent or empty), and whether a call on the cell
\* raises
DayCell(aria, dts, title, marker, fails) ==
    [aria |-> aria, dts |-> dts, title |-> title, marker |-> marker,
     fails |-> fails]

CellTitles == {<<>>, <<"9", ":", "0", "0">>, VACATION.value, <<"x">>}
CellMarkers == {<<>>, <<"8", ":", "3", "0">>, SICK.value}

\* day 5 with every title and marker; other day labels with a time in the
\* title; a cell on which a call raises
ScanCells ==
    {DayCell(<<"5">>, <<>>, t, m, FALSE) : t \in CellTitles, m \in CellMarkers}
    \cup {DayCell(a, <<>>, <<"9", ":", "0", "0">>, <<>>, FALSE) :
            a \in {<<>>, <<"x">>, <<"0">>, <<"3", "0">>, <<"3", "1">>,
                   <<"3", "2">>}}
    \cup {DayCell(a, <<" ", "2", "9">>, <<"9", ":", "0", "0">>, <<>>, FALSE) :
            a \in {<<>>, <<"x">>}}
    \cup {DayCell(<<"5">>, <<>>, <<"9", ":", "0", "0">>, <<>>, TRUE)}

\* a month whose predecessor is February, and a January
ScanArgs == {[year |-> 2025, month |-> 3], [year |-> 2026, month |-> 1]}

\* str.isdigit on the characters of the model
isdigit(t) == t # <<>> /\ \A i \in 1..Len(t) : t[i] \in Digits

\* lines 1123-1131: day_num; 0 stands for None as well, 'not day_num' holds
\* of both
day_num(c) ==
    IF isdigit(c.aria) THEN IntOf(c.aria)
    ELSE IF isdigit(Strip(c.dts)) THEN IntOf(Strip(c.dts))
    ELSE 0

\* lines 1140-1142: the title
TitleTime(c) ==
    IF c.title # <<>> THEN parse_time_string(c.title).value ELSE NoTime

TitleNote(c) ==
    IF c.title # <<>> /\ TitleTime(c) = NoTime THEN detect_in(c.title)
    ELSE NoNote

\* an AttendanceRecord as lines 1163-1168 construct it
ScanRecord(d, entry, note) ==
    [date |-> d, entry_time |-> entry, exit_time |-> NoTime,
     work_type |-> None, note |-> note]

\* a variant that reads the marker whatever the title gave
mark_BothSources(c) ==
    IF Strip(c.marker) # <<>>
    THEN LET t == parse_time_string(Strip(c.marker)).value
         IN  [entry |-> IF t # NoTime THEN t ELSE TitleTime(c),
              note |-> TitleNote(c)]
    ELSE [entry |-> TitleTime(c), note |-> TitleNote(c)]

\* lines 1136-1152: entry_time_value and status_note after the title and
\* the marker were read
mark(c) ==
    IF /\ TitleTime(c) = NoTime
       /\ TitleNote(c) = NoNote
       /\ Strip(c.marker) # <<>>
    THEN LET t == parse_time_string(Strip(c.marker)).value
         IN  [entry |-> t,
              note |-> IF t = NoTime THEN detect_in(Strip(c.marker))
                       ELSE NoNote]
    ELSE [entry |-> TitleTime(c), note |-> TitleNote(c)]

\* _parse_day_cell (lines 1110-1172): <<record>>, or <<>> for None
parse_day_cell(c, year, month, s) ==
    IF c.fails THEN <<>>
    ELSE IF day_num(c) < 1 \/ day_num(c) > 31 THEN <<>>
    ELSE LET at == get_cell_date(day_num(c), month, year, s)
         IN  IF at[3] > DaysInMonth(at[1], at[2]) THEN <<>>
             ELSE <<ScanRecord(Date(at[1], at[2], at[3]),
                               mark(c).entry, mark(c).note)>>

InitScan ==
    /\ pc = "scan"
    /\ for_date = None
    /\ start_day = 20
    /\ period = None
    /\ cell_in = None
    /\ cell = None
    /\ ParseIdle
    /\ StatusIdle
    /\ BatchIdle
    /\ DetailIdle
    /\ SessionIdle
    /\ entry_point = "get_attendance"
    /\ records = <<>>
    /\ pattern = None
    /\ today_only = FALSE
    /\ up_to_today = FALSE
    /\ today_date = None
    /\ to_fill = <<>>
    /\ confirmed = FALSE
    /\ batch_called = FALSE
    /\ scan_arg \in ScanArgs
    /\ cells \in UNION {[1..n -> ScanCells] : n \in 0..MaxCells}
    /\ cell_i = 0
    /\ coarse = <<>>
    /\ selected_count = 0
    /\ detail_list = <<>>
    /\ fallback_data = <<>>
    /\ read_log = <<>>

scanRest ==
    <<for_date, start_day, period, cell_in, cell, parseVars, statusVars,
      batchVars, detailVars, sessionVars, entry_point, pattern, today_only,
      up_to_today, today_date, to_fill, confirmed, batch_called, scan_arg,
      cells, selected_count, detail_list, fallback_data, read_log>>

\* a variant in which a cell that fails ends the scan with nothing
ParseDayCell_Abort ==
    /\ pc = "scan"
    /\ cell_i < Len(cells)
    /\ cell_i' = cell_i + 1
    /\ IF cells[cell_i + 1].fails
       THEN /\ records' = <<>>
            /\ pc' = "scan_done"
       ELSE /\ records' = records \o parse_day_cell(cells[cell_i + 1],
                                       scan_arg.year, scan_arg.month, start_day)
            /\ pc' = pc
    /\ UNCHANGED <<scanRest, coarse>>

\* one pass of the loop of lines 1103-1106
ParseDayCell ==
    /\ pc = "scan"
    /\ cell_i < Len(cells)
    /\ cell_i' = cell_i + 1
    /\ records' = records \o parse_day_cell(cells[cell_i + 1],
                                scan_arg.year, scan_arg.month, start_day)
    /\ UNCHANGED <<pc, scanRest, coarse>>

\* line 1108, and line 299 of get_attendance
ScanReturn ==
    /\ pc = "scan"
    /\ cell_i = Len(cells)
    /\ coarse' = records
    /\ pc' = "scan_done"
    /\ UNCHANGED <<scanRest, records, cell_i>>

NextScan ==
    \/ ParseDayCell
    \/ ScanReturn

SpecScan == InitScan /\ [][NextScan]_vars

(***************************************************************************)
(* SpecRead: get_attendance after the calendar scan (line 299): the cells  *)
(* with data are staged, the detail table is revealed and extracted, days  *)
(* the table lacks are fetched one by one, and the rows are applied to the *)
(* scanned records.                                                        *)
(***************************************************************************)
MaxScanned == 2
MaxBulk == 2

\* WorkType.from_hilan_code: the member, or None
from_hilan_code_Default(code) ==
    CASE code = "103" -> OFFICE
      [] code = "101" -> HOME
      [] code = "104" -> ABROAD
      [] OTHER -> OFFICE

from_hilan_code(code) ==
    CASE code = "103" -> OFFICE
      [] code = "101" -> HOME
      [] code = "104" -> ABROAD
      [] OTHER -> None

\* _DetailRow (lines 87-98); entry and exit are texts, '' is <<>>
PyDetailRow(day, month, entry, exit, code, noEntry, noExit) ==
    [day |-> day, month |-> month, entry |-> entry, exit |-> exit,
     workTypeCode |-> code, missingEntry |-> noEntry, missingExit |-> noExit]

\* records of the scan: a day of December with an entry, a day of January
\* without one
ScannedRecords ==
    {ScanRecord(Date(2025, 12, 21), <<9, 0>>, NoNote),
     ScanRecord(Date(2026, 1, 5), NoTime, NoNote)}

\* rows of the detail script: complete; an entry that is no time of day and
\* a code that is no work type; no entry; a day the scan has no record of
BulkRows ==
    {PyDetailRow(21, 12, <<"8", ":", "3", "0">>, <<"1", "7", ":", "0", "0">>,
                 "103", FALSE, FALSE),
     PyDetailRow(21, 12, <<"2", "5", ":", "0", "0">>, <<>>, "999", FALSE, TRUE),
     PyDetailRow(5, 1, <<>>, <<"1", "7", ":", "0", "0">>, "101", TRUE, FALSE),
     PyDetailRow(7, 1, <<"8", ":", "3", "0">>, <<"1", "7", ":", "0", "0">>,
                 "104", FALSE, FALSE)}

\* rows of the per-day fallback
FallbackRows ==
    {PyDetailRow(21, 12, <<"9", ":", "1", "5">>, <<>>, "101", TRUE, FALSE),
     PyDetailRow(5, 1, <<"8", ":", "3", "0">>, <<>>, "", FALSE, TRUE),
     PyDetailRow(7, 1, <<>>, <<>>, "", FALSE, FALSE)}

\* (row.day, row.month) (lines 685, 687, 707)
RowKey(r) == <<r.day, r.month>>

\* the detail script returns one row for a key (line 494)
BulkLists ==
    {q \in UNION {[1..n -> BulkRows] : n \in 0..MaxBulk} :
        \A i, j \in 1..Len(q) : i # j => RowKey(q[i]) # RowKey(q[j])}

\* one pass of the loop of lines 686-702 over by_date, whose values are
\* kept in insertion order
FallbackSet(by_date, row) ==
    LET at == {i \in 1..Len(by_date) : RowKey(by_date[i]) = RowKey(row)}
        existing == IF at = {}
                    THEN PyDetailRow(row.day, row.month, <<>>, <<>>, "",
                                     FALSE, FALSE)
                    ELSE by_date[CHOOSE i \in at : TRUE]
        merged == [existing EXCEPT
                     !.entry = IF row.entry # <<>> THEN row.entry ELSE @,
                     !.exit = IF row.exit # <<>> THEN row.exit ELSE @,
                     !.workTypeCode = IF row.workTypeCode # ""
                                      THEN row.workTypeCode ELSE @,
                     !.missingEntry = @ \/ row.missingEntry,
                     !.missingExit = @ \/ row.missingExit]
    IN  IF at = {} THEN Append(by_date, merged)
        ELSE [i \in 1..Len(by_date) |-> IF i \in at THEN merged ELSE by_date[i]]

\* lines 684-703
RECURSIVE FallbackMerge(_, _)
FallbackMerge(rows, fallback) ==
    IF fallback = <<>> THEN rows
    ELSE FallbackMerge(FallbackSet(rows, Head(fallback)), Tail(fallback))

\* a variant that writes whatever the parse gave
ApplyRow_Always(recs, data) ==
    LET at == {i \in 1..Len(recs) :
                  <<recs[i].date.day, recs[i].date.month>> = RowKey(data)}
    IN  IF at = {} THEN recs
        ELSE LET k == CHOOSE i \in at : \A j \in at : j <= i
             IN  [recs EXCEPT ![k] =
                    [@ EXCEPT
                       !.entry_time = parse_time_string(data.entry).value,
                       !.exit_time = parse_time_string(data.exit).value,
                       !.work_type = IF data.workTypeCode # ""
                                     THEN from_hilan_code(data.workTypeCode)
                                     ELSE @]]

\* one pass of the loop of lines 706-717; record_map (line 505) has the
\* last record of a key
ApplyRow(recs, data) ==
    LET at == {i \in 1..Len(recs) :
                  <<recs[i].date.day, recs[i].date.month>> = RowKey(data)}
        parsed_entry == parse_time_string(data.entry).value
        parsed_exit == parse_time_string(data.exit).value
    IN  IF at = {} THEN recs
        ELSE LET k == CHOOSE i \in at : \A j \in at : j <= i
             IN  [recs EXCEPT ![k] =
                    [@ EXCEPT
                       !.entry_time = IF data.entry # <<>> /\ parsed_entry # NoTime
                                      THEN parsed_entry ELSE @,
                       !.exit_time = IF data.exit # <<>> /\ parsed_exit # NoTime
                                     THEN parsed_exit ELSE @,
                       !.work_type = IF data.workTypeCode # ""
                                     THEN from_hilan_code(data.workTypeCode)
                                     ELSE @]]

\* lines 706-717
RECURSIVE ApplyRows(_, _)
ApplyRows(recs, rows) ==
    IF rows = <<>> THEN recs
    ELSE ApplyRows(ApplyRow(recs, Head(rows)), Tail(rows))

\* records.sort(key=lambda r: r.date) (line 719): a stable sort
RECURSIVE SortByDate(_)
SortByDate(recs) ==
    IF recs = <<>> THEN <<>>
    ELSE LET n == Len(recs)
             sorted == SortByDate(SubSeq(recs, 1, n - 1))
             r == recs[n]
             before == {i \in 1..Len(sorted) : DateLE(sorted[i].date, r.date)}
             k == Cardinality(before)
         IN  SubSeq(sorted, 1, k) \o <<r>> \o SubSeq(sorted, k + 1, Len(sorted))

InitRead ==
    /\ pc = "read_scanned"
    /\ DatesIdle
    /\ ParseIdle
    /\ StatusIdle
    /\ BatchIdle
    /\ DetailIdle
    /\ SessionIdle
    /\ entry_point = "get_attendance"
    /\ records \in UNION {[1..n -> ScannedRecords] : n \in 0..MaxScanned}
    /\ pattern = None
    /\ today_only = FALSE
    /\ up_to_today = FALSE
    /\ today_date = None
    /\ to_fill = <<>>
    /\ confirmed = FALSE
    /\ batch_called = FALSE
    /\ scan_arg = None
    /\ cells = <<>>
    /\ cell_i = 0
    /\ coarse = records
    /\ selected_count = 0
    /\ detail_list = <<>>
    /\ fallback_data = <<>>
    /\ read_log = <<>>

readRest ==
    <<dateVars, parseVars, statusVars, batchVars, detailVars, sessionVars,
      entry_point, pattern, today_only, up_to_today, today_date, to_fill,
      confirmed, batch_called, scan_arg, cells, cell_i, coarse>>

\* lines 301-303: the scan found no day
ReadEmpty ==
    /\ pc = "read_scanned"
    /\ records = <<>>
    /\ pc' = "read_done"
    /\ UNCHANGED <<readRest, records, selected_count, detail_list,
                   fallback_data, read_log>>

\* lines 305-358: the cells with data are clicked; the script reports how
\* many (0 also if its payload is not valid)
ReadStage ==
    /\ pc = "read_scanned"
    /\ records # <<>>
    /\ selected_count' \in 0..(MaxBulk + 1)
    /\ read_log' = Append(read_log, "stage")
    /\ pc' = "read_reveal"
    /\ UNCHANGED <<readRest, records, detail_list, fallback_data>>

\* a variant that goes on to the extraction without the reveal control
ReadReveal_GoOn ==
    /\ pc = "read_reveal"
    /\ \E found \in BOOLEAN :
          read_log' = IF found THEN Append(read_log, "reveal") ELSE read_log
    /\ pc' = "read_detail"
    /\ UNCHANGED <<readRest, records, selected_count, detail_list,
                   fallback_data>>

\* lines 360-371: the reveal control is clicked, or the scan is returned
ReadReveal ==
    /\ pc = "read_reveal"
    /\ \E found \in BOOLEAN :
          IF found
          THEN /\ read_log' = Append(read_log, "reveal")
               /\ pc' = "read_detail"
          ELSE /\ read_log' = read_log
               /\ pc' = "read_done"
    /\ UNCHANGED <<readRest, records, selected_count, detail_list,
                   fallback_data>>

\* lines 373-508: the detail script's rows (none if the payload is not
\* valid), and whether the fallback is needed
ReadDetail ==
    /\ pc = "read_detail"
    /\ detail_list' \in BulkLists
    /\ read_log' = Append(read_log, "detail")
    /\ pc' = IF selected_count > Len(detail_list') THEN "read_fallback"
             ELSE "read_apply"
    /\ UNCHANGED <<readRest, records, selected_count, fallback_data>>

\* lines 509-703: each day key gives at most one fallback row; the rows are
\* merged into detail_rows
ReadFallback ==
    /\ pc = "read_fallback"
    /\ fallback_data' \in UNION {[1..n -> FallbackRows] : n \in 0..selected_count}
    /\ detail_list' = FallbackMerge(detail_list, fallback_data')
    /\ read_log' = Append(read_log, "fallback")
    /\ pc' = "read_apply"
    /\ UNCHANGED <<readRest, records, selected_count>>

\* lines 705-726: the rows are applied, the records sorted and returned
ReadApply ==
    /\ pc = "read_apply"
    /\ records' = SortByDate(ApplyRows(records, detail_list))
    /\ read_log' = Append(read_log, "apply")
    /\ pc' = "read_done"
    /\ UNCHANGED <<readRest, selected_count, detail_list, fallback_data>>

NextRead ==
    \/ ReadEmpty
    \/ ReadStage
    \/ ReadReveal
    \/ ReadDetail
    \/ ReadFallback
    \/ ReadApply

SpecRead == InitRead /\ [][NextRead]_vars

\* months counted from year 0, so that consecutive months differ by one
MonthIndex(y, m) == 12 * y + (m - 1)

(***************************************************************************)
(* C1: for every valid date d and start day s in 1..28, get_cell_date      *)
(* applied to d.day and the period get_pay_period(d, s) gives back         *)
(* (d.year, d.month, d.day), December dates with d.day >= s included.      *)
(***************************************************************************)
C1_RoundTrip ==
    pc = "period_cell" =>
        cell = <<for_date.year, for_date.month, for_date.day>>

C1_Witness ==
    /\ pc = "period_cell"
    /\ for_date.month = 12
    /\ for_date.day >= start_day
    /\ period = <<for_date.year + 1, 1>>
    /\ cell = <<for_date.year, 12, for_date.day>>

(***************************************************************************)
(* C2: get_pay_period returns the month after d's month when d.day >= s    *)
(* (December rolls over to January of the next year) and d's own month     *)
(* when d.day < s; with s = 20, 2025-12-21 gives (2026, 1) and 2025-12-19  *)
(* gives (2025, 12).                                                       *)
(***************************************************************************)
C2_PayPeriod ==
    pc \in {"period_done", "period_cell"} =>
        /\ period[2] \in 1..12
        /\ MonthIndex(period[1], period[2]) =
              MonthIndex(for_date.year, for_date.month)
                + (IF for_date.day >= start_day THEN 1 ELSE 0)
        /\ (start_day = 20 /\ for_date = [year |-> 2025, month |-> 12, day |-> 21])
              => period = <<2026, 1>>
        /\ (start_day = 20 /\ for_date = [year |-> 2025, month |-> 12, day |-> 19])
              => period = <<2025, 12>>

C2_Witness ==
    /\ pc = "period_done"
    /\ start_day = 20
    /\ for_date = [year |-> 2025, month |-> 12, day |-> 21]
    /\ period = <<2026, 1>>

(***************************************************************************)
(* C3: get_cell_date places a cell with day >= s in the month before       *)
(* target_month (target_month = 1 gives December of target_year - 1) and a *)
(* cell with day < s in target_month itself, and always keeps the day      *)
(* number; (25, 1, 2026, 20) gives (2025, 12, 25).                         *)
(***************************************************************************)
C3_CellDate ==
    pc = "cell_done" =>
        /\ cell[3] = cell_in[1]
        /\ cell[2] \in 1..12
        /\ MonthIndex(cell[1], cell[2]) =
              MonthIndex(cell_in[3], cell_in[2])
                - (IF cell_in[1] >= start_day THEN 1 ELSE 0)
        /\ (cell_in = <<25, 1, 2026>> /\ start_day = 20) => cell = <<2025, 12, 25>>

C3_Witness ==
    /\ pc = "cell_done"
    /\ cell_in = <<25, 1, 2026>>
    /\ start_day = 20
    /\ cell = <<2025, 12, 25>>

(***************************************************************************)
(* The texts that are exactly a time: the hour as one or two digits (a     *)
(* leading zero allowed), a colon, the minute as two digits.               *)
(***************************************************************************)
ExactTimeTexts(h, m) ==
    {TwoDigits(h) \o <<":">> \o TwoDigits(m)}
      \cup (IF h < 10 THEN {<<DigitChar(h), ":">> \o TwoDigits(m)} ELSE {})

\* <<text, time>> for every text that is exactly a time
ExactTimeTable ==
    UNION {{<<core, <<h, m>>>> : core \in ExactTimeTexts(h, m)} :
              h \in 0..23, m \in 0..59}

ExactTimeTextSet == {e[1] : e \in ExactTimeTable}

\* the texts inside t that have whitespace alone before and after them
Cores(t) ==
    {SubSeq(t, a + 1, Len(t) - b) : <<a, b>> \in
        {ab \in (0..Len(t)) \X (0..Len(t)) :
            /\ ab[1] + ab[2] <= Len(t)
            /\ \A i \in 1..ab[1] : t[i] \in Whitespace
            /\ \A i \in (Len(t) - ab[2] + 1)..Len(t) : t[i] \in Whitespace}}

(***************************************************************************)
(* C4, as stated: parse_time_string returns a time only for a text that is *)
(* exactly a 1-2 digit hour, a colon and a 2-digit minute with hour in     *)
(* 0..23 and minute in 0..59; for every other text it returns no value,    *)
(* and it never raises.  The code strips the text first, so " 9:00" is     *)
(* parsed as 09:00.                                                        *)
(***************************************************************************)
C4_ExactTextOnly ==
    pc = "parse_done" =>
        /\ ~raised
        /\ parsed # NoTime => <<time_str, parsed>> \in ExactTimeTable
        /\ parsed = NoTime => time_str \notin ExactTimeTextSet

(***************************************************************************)
(* C4, amended: parse_time_string returns the time h:m exactly for the     *)
(* texts that, with leading and trailing whitespace removed, are a 1-2     *)
(* digit hour, a colon and a 2-digit minute with h in 0..23 and m in       *)
(* 0..59; for every other text it returns no value, and it never raises.   *)
(***************************************************************************)
C4_ParseTime ==
    pc = "parse_done" =>
        /\ ~raised
        /\ parsed # NoTime =>
              \E core \in Cores(time_str) : <<core, parsed>> \in ExactTimeTable
        /\ parsed = NoTime =>
              \A core \in Cores(time_str) : core \notin ExactTimeTextSet

\* "25:61" matches the pattern, is out of range and gives no value
C4_Witness ==
    /\ pc = "parse_done"
    /\ time_str = <<"2", "5", ":", "6", "1">>
    /\ parsed = NoTime
    /\ ~raised

(***************************************************************************)
(* C5: status detection recognises every keyword of the fixed set (sick,   *)
(* vacation and its alternate spelling, holiday, half-vacation,            *)
(* reserve-duty, training, bereavement): detect_in returns a status for a  *)
(* text that contains any of them and none only for a text that contains   *)
(* none of them.  StatusNotes has no member for reserve-duty, training and *)
(* bereavement.                                                            *)
(***************************************************************************)
StatusKeywords ==
    {DayTypes[i] : i \in 1..Len(DayTypes)} \cup {VACATION_ALT.value}

C5_DetectsEveryKeyword ==
    pc = "status_done" =>
        (status_note # NoNote <=>
            \E k \in StatusKeywords : Contains(status_text, k))

(***************************************************************************)
(* C6: detect_in returns the canonical VACATION member whether the text    *)
(* contains the canonical spelling or only the alternate one (no member    *)
(* defined before VACATION matching the text), and it never returns the    *)
(* alternate member.                                                       *)
(***************************************************************************)
C6_VacationCanonical ==
    pc = "status_done" =>
        /\ status_note # VACATION_ALT
        /\ (/\ Contains(status_text, VACATION.value)
            /\ ~Contains(status_text, SICK.value))
              => status_note = VACATION
        /\ (/\ Contains(status_text, VACATION_ALT.value)
            /\ ~Contains(status_text, VACATION.value)
            /\ ~Contains(status_text, SICK.value))
              => status_note = VACATION

C6_Witness ==
    /\ pc = "status_done"
    /\ Contains(status_text, VACATION_ALT.value)
    /\ ~Contains(status_text, VACATION.value)
    /\ status_note = VACATION


\* the records of `rs` dated `d` that have no note and are not complete
Unsettled(rs, d) ==
    {i \in 1..Len(rs) : rs[i].date = d /\ ~HasNote(rs[i]) /\ ~is_complete(rs[i])}

\* C7: a record with a note, or with entry and exit both set, is never a
\* fill target: every record of run_attendance_flow's to_fill has no note and
\* is not complete, and for every date fill_attendance builds no more items
\* than there are records of that date with no note and not complete.
C7_NeverTargets ==
    /\ \A i \in 1..Len(to_fill) : ~HasNote(to_fill[i]) /\ ~is_complete(to_fill[i])
    /\ \A d \in PlanDates :
          Cardinality({i \in 1..N : records_to_fill[i].date = d})
              <= Cardinality(Unsettled(records, d))

\* run_attendance_flow selected a target and fill_attendance built its item,
\* from records that hold an empty record with a note on a work day
C7_Witness ==
    /\ entry_point = "run_attendance_flow"
    /\ pc = "batch_call"
    /\ to_fill # <<>>
    /\ N = Len(to_fill)
    /\ \E i \in 1..Len(records) :
          /\ HasNote(records[i])
          /\ ~has_existing_entry(records[i])
          /\ ~has_existing_exit(records[i])
          /\ Weekday(records[i].date) \in work_days(pattern)

\* C8: when fill_attendance has N >= 1 fill targets and no portal step
\* fails, it returns (N, 0).
C8_ReturnsAllFilled ==
    (pc = "fill_returned" /\ N >= 1 /\ caught # "Exception") => result = <<N, 0>>

\* how often the portal action `a` occurs in the log `q`
Count(q, a) == Cardinality({i \in 1..Len(q) : q[i] = a})

\* the five portal actions of the batch in their order
Rank(a) ==
    CASE a = "clear" -> 1
      [] a = "select" -> 2
      [] a = "reveal" -> 3
      [] a = "write" -> 4
      [] a = "save" -> 5

IsStep(a) == a # "dismiss"

\* the places of the log of steps where the order goes back
Descents(q) == {i \in 1..(Len(q) - 1) : Rank(q[i + 1]) <= Rank(q[i])}

\* C9: in a non-dry-run fill_batch the portal actions occur in the order
\* clear, select, reveal, write, save; the order goes back at most once, from
\* reveal to the clearing and selecting of the retry, and only after the
\* notice was seen; reveal is triggered at most twice, rows are written at
\* most once, and save is triggered at most once and only after the write
\* step reported at least one filled row.
C9_StepOrder ==
    LET steps == SelectSeq(portal_log, IsStep)
    IN  /\ Cardinality(Descents(steps)) <= 1
        /\ \A i \in Descents(steps) :
              /\ steps[i] = "reveal"
              /\ steps[i + 1] \in {"clear", "select"}
              /\ notice_seen >= 1
        /\ Count(portal_log, "reveal") <= 2
        /\ Count(portal_log, "write") <= 1
        /\ Count(portal_log, "save") <= 1
        /\ Count(portal_log, "save") = 1 =>
              /\ Count(portal_log, "write") = 1
              /\ filled >= 1
        /\ dry_run => portal_log = <<>>

\* a batch that went through the retry and on to the write step
C9_Witness ==
    /\ pc = "batch_done"
    /\ portal_log = <<"clear", "select", "reveal", "dismiss", "clear", "select",
                      "reveal">>
    /\ notice_seen = 1
    /\ caught = "SyntaxError"

\* a clear that follows a reveal: the clear of the retry
ClearAfterReveal ==
    \E i, j \in 1..Len(portal_log) :
        i < j /\ portal_log[i] = "reveal" /\ portal_log[j] = "clear"

\* the batch returned after the notice was seen and the retry went well:
\* no browser call failed, the notice was dismissed, the selection cleared
\* and the days re-clicked
ReturnedAfterRetry ==
    /\ pc = "batch_done"
    /\ caught # "Exception"
    /\ notice_seen >= 1
    /\ Count(portal_log, "dismiss") = 1
    /\ ClearAfterReveal
    /\ Count(portal_log, "select") = 2

\* C10: after the notice and the retry, reveal is triggered once more; if
\* the notice is then gone the batch writes the rows an instruction matches
\* and saves, and if it is there again the call returns (0, N) without
\* writing any row or saving.
C10_RetryThenWrite ==
    ReturnedAfterRetry =>
        /\ Count(portal_log, "reveal") = 2
        /\ (notice_seen = 1 /\ rows_matched >= 1) =>
              /\ Count(portal_log, "write") = 1
              /\ Count(portal_log, "save") = 1
              /\ filled >= 1
        /\ notice_seen = 2 =>
              /\ result = <<0, N>>
              /\ Count(portal_log, "write") = 0
              /\ Count(portal_log, "save") = 0


\* C11: fill_batch called with an empty list returns (0, 0) and performs no
\* browser operation; fill_attendance with no fill targets returns (0, 0)
\* without calling fill_batch_attendance.
C11_EmptyNoBrowser ==
    /\ (entry_point = "fill_batch" /\ pc = "batch_done" /\ N = 0) =>
          /\ result = <<0, 0>>
          /\ ~browser_used
          /\ portal_log = <<>>
    /\ (entry_point = "fill_attendance" /\ pc = "fill_returned" /\ N = 0) =>
          /\ result = <<0, 0>>
          /\ ~batch_called
          /\ ~browser_used
          /\ portal_log = <<>>

\* fill_batch returned from a call with an empty list
C11_Witness ==
    /\ entry_point = "fill_batch"
    /\ pc = "batch_done"
    /\ N = 0
    /\ ~dry_run
    /\ result = <<0, 0>>

\* C12: fill_batch called with dry_run and N >= 1 instructions returns
\* (N, 0) and performs no click, no row write and no save: it does not
\* touch the page at all, and it never gets past the dry-run report.
C12_DryRun ==
    (entry_point = "fill_batch" /\ dry_run /\ N >= 1) =>
        /\ pc \in {"batch_call", "batch_done"}
        /\ pc = "batch_done" => result = <<N, 0>>
        /\ portal_log = <<>>
        /\ ~browser_used
        /\ rows_seen = 0
        /\ filled = 0

\* a dry run of two instructions returned
C12_Witness ==
    /\ entry_point = "fill_batch"
    /\ dry_run
    /\ pc = "batch_done"
    /\ N = 2
    /\ result = <<2, 0>>

\* C13: on every return path of fill_batch with N instructions the pair
\* returned is (filled_count, N - filled_count).
C13_CountsAddUp ==
    (entry_point = "fill_batch" /\ pc = "batch_done") =>
        /\ Len(result) = 2
        /\ result[1] + result[2] = N
        /\ result[2] = N - result[1]

\* a batch of two instructions returned from the write step
C13_Witness ==
    /\ entry_point = "fill_batch"
    /\ pc = "batch_done"
    /\ N = 2
    /\ rows_matched = 2
    /\ caught = "SyntaxError"
    /\ result = <<0, 2>>


\* the rows among the first n scanned whose date resolves to the key k
RowsOf(k, n) ==
    {i \in 1..n : /\ extractDateParts(detail_rows[i].dateText) # NoDate
                  /\ DateKey(extractDateParts(detail_rows[i].dateText)) = k}

Least(S) == CHOOSE i \in S : \A j \in S : i <= j

\* the first non-empty value of a field among the rows S, in row order
FirstEntry(S) ==
    LET T == {i \in S : detail_rows[i].entry # ""}
    IN  IF T = {} THEN "" ELSE detail_rows[Least(T)].entry

FirstExit(S) ==
    LET T == {i \in S : detail_rows[i].exit # ""}
    IN  IF T = {} THEN "" ELSE detail_rows[Least(T)].exit

FirstCode(S) ==
    LET T == {i \in S : detail_rows[i].workTypeCode # ""}
    IN  IF T = {} THEN "" ELSE detail_rows[Least(T)].workTypeCode

\* C14: detail rows with the same (day, month) merge into one row in which
\* each of entry, exit and work-type code is the first non-empty value in
\* row order and each missing flag is the OR of the rows' flags; there is
\* one merged row per date, and it holds at every pass of the loop, so a
\* populated field is never replaced.
C14_MergeRule ==
    /\ \A a, b \in 1..Len(by_date_key) :
          DateKey(by_date_key[a]) = DateKey(by_date_key[b]) => a = b
    /\ \A i \in 1..detail_i :
          extractDateParts(detail_rows[i].dateText) # NoDate =>
              \E a \in 1..Len(by_date_key) :
                  DateKey(by_date_key[a]) =
                      DateKey(extractDateParts(detail_rows[i].dateText))
    /\ \A a \in 1..Len(by_date_key) :
          LET S == RowsOf(DateKey(by_date_key[a]), detail_i)
          IN  /\ S # {}
              /\ by_date_key[a].entry = FirstEntry(S)
              /\ by_date_key[a].exit = FirstExit(S)
              /\ by_date_key[a].workTypeCode = FirstCode(S)
              /\ by_date_key[a].missingEntry
                    <=> \E i \in S : detail_rows[i].missingEntry
              /\ by_date_key[a].missingExit
                    <=> \E i \in S : detail_rows[i].missingExit

\* three rows of one date: the entry only, then other values for entry and
\* exit, then every field empty; the merged row keeps the first entry and
\* takes the exit of the second row
C14_Witness ==
    /\ pc = "detail_done"
    /\ Len(detail_rows) = 3
    /\ Len(by_date_key) = 1
    /\ detail_rows[1].entry = "08:30" /\ detail_rows[1].exit = ""
    /\ detail_rows[2].entry = "09:15" /\ detail_rows[2].exit = "18:00"
    /\ detail_rows[3].entry = "" /\ detail_rows[3].exit = ""
    /\ by_date_key[1].entry = "08:30"
    /\ by_date_key[1].exit = "18:00"


\* the run is over: the flow returned, or an exception left it
RunEnded == pc \in {"flow_done", "raised"}

\* the session holds nothing
Released ==
    /\ ~page
    /\ ~context
    /\ ~browser
    /\ ~playwright
    /\ ~is_logged_in

\* C15: on every way a flow run can end, stop was executed and afterwards
\* the page, context, browser and playwright handles are unset and
\* is_logged_in is false.
C15_SessionReleased == RunEnded => stopped /\ Released

Occurs(q, a) == \E i \in 1..Len(q) : q[i] = a

\* the login was given up: a control was missing, or the landing page was
\* not the home page
LoginFailed == ending = "login_failed"

\* C17: if login fails, is_logged_in stays false and the run ends without
\* navigating to the calendar, scanning or filling; is_logged_in is true only
\* after the form was submitted and the home-page check succeeded.
C17_LoginFailureFatal ==
    /\ LoginFailed =>
          /\ ~is_logged_in
          /\ pc \in {"session_exit", "flow_done", "raised"}
          /\ ~Occurs(session_log, "navigate")
          /\ ~Occurs(session_log, "scan")
          /\ ~Occurs(session_log, "fill")
          /\ ~confirmed
    /\ is_logged_in =>
          /\ Occurs(session_log, "submit")
          /\ Occurs(session_log, "home_page")
    /\ Occurs(session_log, "navigate") => Occurs(session_log, "home_page")

\* the form was submitted, the landing page was not the home page, and the
\* run ended
C17_Witness ==
    /\ LoginFailed
    /\ pc = "flow_done"
    /\ Occurs(session_log, "submit")
    /\ Occurs(session_log, "other_page")


\* the flow handed a batch to the portal
FlowWrites == entry_point = "run_attendance_flow" /\ batch_called

ReturnedFromWrite ==
    /\ entry_point = "fill_batch"
    /\ pc = "batch_done"
    /\ caught = "SyntaxError"

\* C18: in the write step a detail row matched to an instruction has its
\* work-type selector set to the vendor code, and its entry and exit written
\* where the instruction has a value, and then counts as filled: when the
\* page shows such rows, rows are written and at least one counts as filled.
C18_MatchedRowWritten ==
    (ReturnedFromWrite /\ rows_matched >= 1) =>
        /\ Count(portal_log, "write") = 1
        /\ filled >= 1

\* the instructions of the batch that have a vendor code
Coded == {i \in 1..N : hilan_code(records_to_fill[i].type) # None}

NoDayClicked ==
    /\ entry_point = "fill_batch"
    /\ pc = "batch_done"
    /\ ~dry_run
    /\ N >= 1
    /\ caught = None
    /\ Count(portal_log, "select") = 0

\* C20: if no target day could be clicked in the selection step, the call
\* returns (0, N) at once: no reveal, no write, no save.
C20_NoDayNoReveal ==
    NoDayClicked =>
        /\ result = <<0, N>>
        /\ Count(portal_log, "reveal") = 0
        /\ Count(portal_log, "dismiss") = 0
        /\ Count(portal_log, "write") = 0
        /\ Count(portal_log, "save") = 0
        /\ notice_seen = 0
        /\ rows_seen = 0
        /\ filled = 0

\* two instructions, the selection cleared, no day clicked
C20_Witness ==
    /\ NoDayClicked
    /\ N = 2
    /\ portal_log = <<"clear">>
    /\ result = <<0, 2>>


\* the batch returned from a run in which days were clicked and the reveal
\* control was not found: the write step was reached with no reveal
RevealNotFound ==
    /\ entry_point = "fill_batch"
    /\ pc = "batch_done"
    /\ caught # "Exception"
    /\ Count(portal_log, "select") = 1
    /\ Count(portal_log, "reveal") = 0

\* C21: when the reveal control is not found, fill_batch returns (0, N)
\* without raising, and no detail row is written or saved.
C21_RevealNotFound ==
    RevealNotFound =>
        /\ result = <<0, N>>
        /\ ~raised
        /\ filled = 0
        /\ Count(portal_log, "write") = 0
        /\ Count(portal_log, "save") = 0

\* two instructions, days clicked, no reveal control, and a page that still
\* shows two rows the lookup has keys for
C21_Witness ==
    /\ RevealNotFound
    /\ N = 2
    /\ portal_log = <<"clear", "select">>
    /\ rows_matched = 2
    /\ result = <<0, 2>>


\* C22: after rows were written the save is triggered through the primary
\* save control or else through the secondary one, and the call returns
\* (filled, N - filled); if neither can be triggered it returns (0, N)
\* although rows were written.  So a batch whose write step met rows of its
\* lookup has written rows, and has either saved and returned
\* (filled, N - filled) or not saved and returned (0, N).
C22_SaveAfterWrite ==
    (ReturnedFromWrite /\ rows_matched >= 1) =>
        \/ /\ Count(portal_log, "write") = 1
           /\ Count(portal_log, "save") = 1
           /\ result = <<filled, N - filled>>
        \/ /\ Count(portal_log, "write") = 1
           /\ Count(portal_log, "save") = 0
           /\ result = <<0, N>>

\* a call that is not a dry run has returned
ReturnedNotDry ==
    /\ entry_point = "fill_batch"
    /\ pc = "batch_done"
    /\ ~dry_run

\* C29: for every non-dry-run fill_batch call with N instructions and any
\* set of revealed detail rows, the counts returned satisfy
\* 0 <= filled_count <= N and failed_count >= 0.
C29_CountsInRange ==
    ReturnedNotDry =>
        /\ Len(result) = 2
        /\ 0 <= result[1]
        /\ result[1] <= N
        /\ result[2] >= 0

\* one instruction, and two rows of the page that resolve to its date
C29_Witness ==
    /\ ReturnedNotDry
    /\ N = 1
    /\ rows_seen = 2
    /\ rows_matched = 2
    /\ result = <<0, 1>>


\* C27: every record of the calendar scan has at most one of entry_time and
\* note set, and has exit_time and work_type unset, whatever the cell's
\* title and marker.
C27_EntryOrNote ==
    entry_point = "get_attendance" /\ pc \in {"scan", "scan_done"} =>
        \A i \in 1..Len(records) :
            /\ ~(records[i].entry_time # NoTime /\ records[i].note # NoNote)
            /\ records[i].exit_time = NoTime
            /\ records[i].work_type = None

\* two cells were scanned: a vacation title over a time marker gave the
\* note alone, an unreadable title over a time marker gave the entry alone
C27_Witness ==
    /\ pc = "scan_done"
    /\ Len(cells) = 2
    /\ cells[1].title = VACATION.value
    /\ cells[1].marker = <<"8", ":", "3", "0">>
    /\ cells[2].title = <<"x">>
    /\ cells[2].marker = <<"8", ":", "3", "0">>
    /\ Len(records) = 2
    /\ records[1].note = VACATION /\ records[1].entry_time = NoTime
    /\ records[2].note = NoNote /\ records[2].entry_time = <<8, 30>>

\* the day a cell shows: its aria-label, or else the text of its day
\* element, if a number; 0 otherwise
ShownDay(c) ==
    IF isdigit(c.aria) THEN IntOf(c.aria)
    ELSE IF isdigit(Strip(c.dts)) THEN IntOf(Strip(c.dts)) ELSE 0

\* the date a cell stands for, if it has a readable day in 1..31 that the
\* month get_cell_date resolves has; <<>> otherwise
CellDate(c) ==
    IF c.fails \/ ShownDay(c) < 1 \/ ShownDay(c) > 31 THEN <<>>
    ELSE LET in_prev == ShownDay(c) >= start_day
             y == IF in_prev /\ scan_arg.month = 1 THEN scan_arg.year - 1
                  ELSE scan_arg.year
             m == IF ~in_prev THEN scan_arg.month
                  ELSE IF scan_arg.month = 1 THEN 12 ELSE scan_arg.month - 1
         IN  IF ShownDay(c) > DaysInMonth(y, m) THEN <<>>
             ELSE <<Date(y, m, ShownDay(c))>>

RECURSIVE CellDates(_)
CellDates(n) ==
    IF n = 0 THEN <<>> ELSE CellDates(n - 1) \o CellDate(cells[n])

\* C28: the scan yields no record for a cell whose day is missing, outside
\* 1..31 or beyond the end of the month get_cell_date resolves; every
\* record has a valid calendar date; and every other cell has its record,
\* whatever happened to the cells before it.
C28_ScanSkips ==
    entry_point = "get_attendance" /\ pc \in {"scan", "scan_done"} =>
        /\ [i \in 1..Len(records) |-> records[i].date] = CellDates(cell_i)
        /\ \A i \in 1..Len(records) :
              /\ records[i].date.month \in 1..12
              /\ records[i].date.day \in
                    1..DaysInMonth(records[i].date.year, records[i].date.month)

\* a 30 that resolves into February gave no record, and the cell after it
\* gave its record
C28_Witness ==
    /\ pc = "scan_done"
    /\ scan_arg.month = 3
    /\ Len(cells) = 2
    /\ cells[1].aria = <<"3", "0">>
    /\ cells[2].aria = <<"5">> /\ ~cells[2].fails
    /\ Len(records) = 1
    /\ records[1].date = Date(2025, 3, 5)


\* the fallback rows of the step that have the key of the row r
SameDay(r, fallback) ==
    {k \in 1..Len(fallback) : RowKey(fallback[k]) = RowKey(r)}

\* C23: the per-day fallback merges a row into the rows already recovered
\* by the rule of the bulk extraction: for a (day, month) already present,
\* an entry, exit or work-type code that is not empty is kept, and the
\* missing flags are OR'ed.
C23_FallbackKeepsFirst ==
    [][pc = "read_fallback" =>
          \A i \in 1..Len(detail_list) :
              \E j \in 1..Len(detail_list') :
                  LET old == detail_list[i]
                      new == detail_list'[j]
                      same == SameDay(old, fallback_data')
                  IN  /\ RowKey(new) = RowKey(old)
                      /\ old.entry # <<>> => new.entry = old.entry
                      /\ old.exit # <<>> => new.exit = old.exit
                      /\ old.workTypeCode # "" =>
                            new.workTypeCode = old.workTypeCode
                      /\ new.missingEntry <=>
                            (old.missingEntry \/
                               \E k \in same : fallback_data'[k].missingEntry)
                      /\ new.missingExit <=>
                            (old.missingExit \/
                               \E k \in same : fallback_data'[k].missingExit)]_vars

\* the records of the date d, in the order of the list
OfDate(recs, d) ==
    LET at(r) == r.date = d
    IN  SelectSeq(recs, at)

\* the reconciled rows of the date d
RowsFor(d) ==
    {i \in 1..Len(detail_list) : RowKey(detail_list[i]) = <<d.day, d.month>>}

\* get_attendance returned after applying the detail rows
Applied ==
    /\ entry_point = "get_attendance"
    /\ pc = "read_done"
    /\ Count(read_log, "apply") = 1

\* a text that is a time of day: one or two digits, a colon, two digits,
\* hour below 24 and minute below 60, whitespace around it aside
IsTimeText(t) ==
    /\ TimeMatch(Strip(t)) # <<>>
    /\ IntOf(TimeMatch(Strip(t))[1]) <= 23
    /\ IntOf(TimeMatch(Strip(t))[2]) <= 59

TimeOfText(t) ==
    <<IntOf(TimeMatch(Strip(t))[1]), IntOf(TimeMatch(Strip(t))[2])>>

\* C24: applying the reconciled rows changes a record's entry_time or
\* exit_time only to the time its row's text parses to: a row whose text is
\* empty or is no time leaves the field as the scan set it, a record with
\* no row of its (day, month) is unchanged, and date and note never change.
C24_OnlyParsedTimes ==
    Applied =>
        /\ Len(records) = Len(coarse)
        /\ \A d \in {coarse[i].date : i \in 1..Len(coarse)} :
              LET old == OfDate(coarse, d)
                  new == OfDate(records, d)
                  n == Len(old)
              IN  /\ Len(new) = n
                  /\ \A j \in 1..(n - 1) : new[j] = old[j]
                  /\ new[n].date = old[n].date
                  /\ new[n].note = old[n].note
                  /\ RowsFor(d) = {} => new[n] = old[n]
                  /\ \A i \in RowsFor(d) :
                        /\ new[n].entry_time =
                              IF IsTimeText(detail_list[i].entry)
                              THEN TimeOfText(detail_list[i].entry)
                              ELSE old[n].entry_time
                        /\ new[n].exit_time =
                              IF IsTimeText(detail_list[i].exit)
                              THEN TimeOfText(detail_list[i].exit)
                              ELSE old[n].exit_time

\* the record of 21 December kept the entry of the scan under a row whose
\* entry is no time and whose exit is empty; the record of 5 January got
\* its exit from a row with no entry
C24_Witness ==
    /\ Applied
    /\ Len(coarse) = 2
    /\ coarse[1].date = Date(2026, 1, 5)
    /\ coarse[2].date = Date(2025, 12, 21)
    /\ Len(detail_list) = 2
    /\ detail_list[1].entry = <<"2", "5", ":", "0", "0">>
    /\ detail_list[2].entry = <<>>
    /\ records[1] = coarse[2]
    /\ records[2].entry_time = NoTime
    /\ records[2].exit_time = <<17, 0>>

\* C25: applying a row sets the record's work_type only from a vendor code
\* that is not empty and is one of '103' (Office), '101' (Home) and '104'
\* (Abroad); any other code leaves the work_type as it was.
C25_KnownCodesOnly ==
    Applied =>
        \A d \in {coarse[i].date : i \in 1..Len(coarse)} :
            LET old == OfDate(coarse, d)
                new == OfDate(records, d)
                n == Len(old)
            IN  /\ Len(new) = n
                /\ \A j \in 1..(n - 1) : new[j].work_type = old[j].work_type
                /\ RowsFor(d) = {} => new[n].work_type = old[n].work_type
                /\ \A i \in RowsFor(d) :
                      new[n].work_type =
                         CASE detail_list[i].workTypeCode = "103" -> OFFICE
                           [] detail_list[i].workTypeCode = "101" -> HOME
                           [] detail_list[i].workTypeCode = "104" -> ABROAD
                           [] OTHER -> old[n].work_type

\* a row with the code '999' was applied to the record of its day, and the
\* work_type of the record stayed unset
C25_Witness ==
    /\ Applied
    /\ Len(coarse) = 1
    /\ Len(detail_list) = 1
    /\ RowKey(detail_list[1]) = <<coarse[1].date.day, coarse[1].date.month>>
    /\ detail_list[1].workTypeCode = "999"
    /\ records[1].work_type = None

\* get_attendance returned without a reveal, the scan having found days
NoRevealControl ==
    /\ entry_point = "get_attendance"
    /\ pc = "read_done"
    /\ coarse # <<>>
    /\ Count(read_log, "reveal") = 0

\* C26: if the reveal control is not found after the cells were staged,
\* get_attendance returns the records of the scan with no field changed,
\* and does no detail extraction and no per-day fallback.
C26_NoRevealNoDetail ==
    NoRevealControl =>
        /\ records = coarse
        /\ read_log = <<"stage">>
        /\ detail_list = <<>>
        /\ fallback_data = <<>>

\* two records, three cells staged, no reveal control
C26_Witness ==
    /\ NoRevealControl
    /\ Len(records) = 2
    /\ selected_count = 3
    /\ records = coarse


\* the items built for the date d, and the records of the date d that have
\* no note and are not complete, each in the order of its list
ItemsOf(d) ==
    LET at(x) == x.date = d
    IN  SelectSeq(records_to_fill, at)

OpenRecords(d) ==
    LET open(r) == r.date = d /\ ~HasNote(r) /\ ~is_complete(r)
    IN  SelectSeq(records, open)

\* C30: the item fill_attendance builds for a fill target has the record's
\* entry_time when it has one and the pattern's otherwise, the record's
\* exit_time when it has one and the pattern's otherwise, and the pattern's
\* work type of the weekday, which is never Skip.
C30_KeepsPortalTimes ==
    entry_point \in {"run_attendance_flow", "fill_attendance"} =>
        \A d \in PlanDates :
            /\ Len(ItemsOf(d)) \in {0, Len(OpenRecords(d))}
            /\ \A k \in 1..Len(ItemsOf(d)) :
                  LET item == ItemsOf(d)[k]
                      r == OpenRecords(d)[k]
                  IN  /\ item.entry_time =
                            IF r.entry_time # NoTime THEN r.entry_time
                            ELSE pattern.entry_time
                      /\ item.exit_time =
                            IF r.exit_time # NoTime THEN r.exit_time
                            ELSE pattern.exit_time
                      /\ Weekday(d) \in DOMAIN pattern.days
                      /\ item.type = pattern.days[Weekday(d)]
                      /\ item.type # SKIP

\* items were built for a Friday worked from home: one for a record with an
\* exit only, one for a record with an entry only
C30_Witness ==
    /\ entry_point = "fill_attendance"
    /\ pc = "batch_call"
    /\ pattern = FridayPattern
    /\ N = 2
    /\ records[1].entry_time = NoTime /\ records[1].exit_time = <<17, 0>>
    /\ records[2].entry_time = <<8, 30>> /\ records[2].exit_time = NoTime
    /\ records_to_fill[1].entry_time = <<8, 0>>
    /\ records_to_fill[1].exit_time = <<17, 0>>
    /\ records_to_fill[2].entry_time = <<8, 30>>
    /\ records_to_fill[2].exit_time = <<16, 30>>
    /\ records_to_fill[1].type = HOME

====
